---------------------------- MODULE Spec2Model ----------------------------
(***************************************************************************)
(* A model of the commit-helper repository: three terminal programs that  *)
(* share a change-classification, suggestion and commit-parsing engine.   *)
(*                                                                         *)
(*   helper     src/unnamed/part_001   diff-based "Git Commit Helper"      *)
(*   generator  src/main.go:990-1754   table-based "Commit Message         *)
(*                                     Generator"                          *)
(*   changelog  src/main.go:1-989      "Changelog Generator"               *)
(*                                                                         *)
(* Go strings are modelled as sequences of one-character strings, so that *)
(* substring search, splitting and the commit grammar are computed the    *)
(* way the code computes them.                                            *)
(***************************************************************************)
EXTENDS Integers, Sequences, FiniteSets, TLC

(***************************************************************************)
(* Go's strings package, path/filepath and fmt, on character sequences.   *)
(***************************************************************************)

\* strings.HasPrefix
HasPrefix(s, p) ==
    /\ Len(p) <= Len(s)
    /\ \A i \in 1..Len(p) : s[i] = p[i]

\* strings.HasSuffix
HasSuffix(s, p) ==
    /\ Len(p) <= Len(s)
    /\ \A i \in 1..Len(p) : s[Len(s) - Len(p) + i] = p[i]

\* whether sub occurs in s at (1-based) position i
OccursAt(s, sub, i) ==
    /\ i + Len(sub) - 1 <= Len(s)
    /\ \A j \in 1..Len(sub) : s[i + j - 1] = sub[j]

\* strings.Contains
Contains(s, sub) == \E i \in 1..(Len(s) - Len(sub) + 1) : OccursAt(s, sub, i)

\* strings.Index, 0-based as in Go; -1 when sub does not occur
Index(s, sub) ==
    IF Contains(s, sub)
    THEN (CHOOSE i \in 1..(Len(s) - Len(sub) + 1) :
             /\ OccursAt(s, sub, i)
             /\ \A k \in 1..(i - 1) : ~OccursAt(s, sub, k)) - 1
    ELSE -1

\* s[from:] with a 0-based Go index
SliceFrom(s, from) == SubSeq(s, from + 1, Len(s))

\* s[:to] with a 0-based Go index
SliceTo(s, to) == SubSeq(s, 1, to)

\* strings.TrimSuffix
TrimSuffix(s, suf) ==
    IF HasSuffix(s, suf) THEN SubSeq(s, 1, Len(s) - Len(suf)) ELSE s

\* unicode.IsSpace on the characters the model uses
IsSpace(c) == c \in {" ", "\t", "\n", "\r"}

UpperCase == <<"A","B","C","D","E","F","G","H","I","J","K","L","M","N","O","P","Q","R","S","T","U","V","W","X","Y","Z">>
LowerCase == <<"a","b","c","d","e","f","g","h","i","j","k","l","m","n","o","p","q","r","s","t","u","v","w","x","y","z">>

IsLetter(c) == \E i \in 1..26 : c = UpperCase[i] \/ c = LowerCase[i]

\* unicode.ToLower of one character
LowerChar(c) ==
    IF \E i \in 1..26 : c = UpperCase[i]
    THEN LowerCase[CHOOSE i \in 1..26 : c = UpperCase[i]]
    ELSE c

\* strings.ToLower
ToLower(s) == [i \in 1..Len(s) |-> LowerChar(s[i])]

\* number of leading characters of s that satisfy IsSpace
RECURSIVE LeadingSpaces(_)
LeadingSpaces(s) ==
    IF s # <<>> /\ IsSpace(Head(s)) THEN 1 + LeadingSpaces(Tail(s)) ELSE 0

RECURSIVE TrailingSpaces(_)
TrailingSpaces(s) ==
    IF s # <<>> /\ IsSpace(s[Len(s)])
    THEN 1 + TrailingSpaces(SubSeq(s, 1, Len(s) - 1))
    ELSE 0

\* strings.TrimSpace
TrimSpace(s) ==
    IF LeadingSpaces(s) = Len(s) THEN <<>>
    ELSE SubSeq(s, LeadingSpaces(s) + 1, Len(s) - TrailingSpaces(s))

\* strings.Split(s, sep) for a one-character separator
RECURSIVE Split(_, _)
Split(s, sep) ==
    IF \E i \in 1..Len(s) : s[i] = sep
    THEN LET i == CHOOSE k \in 1..Len(s) :
                      s[k] = sep /\ \A j \in 1..(k - 1) : s[j] # sep
         IN  <<SubSeq(s, 1, i - 1)>> \o Split(SubSeq(s, i + 1, Len(s)), sep)
    ELSE <<s>>

\* strings.Fields: the maximal runs of non-space characters
RECURSIVE Fields(_)
Fields(s) ==
    LET t == SubSeq(s, LeadingSpaces(s) + 1, Len(s))
    IN  IF t = <<>> THEN <<>>
        ELSE IF \E i \in 1..Len(t) : IsSpace(t[i])
             THEN LET i == CHOOSE k \in 1..Len(t) :
                               IsSpace(t[k]) /\ \A j \in 1..(k - 1) : ~IsSpace(t[j])
                  IN  <<SubSeq(t, 1, i - 1)>> \o Fields(SubSeq(t, i, Len(t)))
             ELSE <<t>>

\* filepath.Base
Base(path) ==
    IF path = <<>> THEN <<".">>
    ELSE LET stripped == Split(path, "/")
             nonEmpty == {i \in 1..Len(stripped) : stripped[i] # <<>>}
         IN  IF nonEmpty = {} THEN <<"/">>
             ELSE stripped[CHOOSE i \in nonEmpty : \A j \in nonEmpty : j <= i]

\* filepath.Ext: from the last dot of the last path element
Ext(path) ==
    LET last == Split(path, "/")[Len(Split(path, "/"))]
        dots == {i \in 1..Len(last) : last[i] = "."}
    IN  IF dots = {} THEN <<>>
        ELSE SubSeq(last, CHOOSE i \in dots : \A j \in dots : j <= i, Len(last))

\* fmt's %d for a natural number
Digits == <<"0","1","2","3","4","5","6","7","8","9">>

RECURSIVE Itoa(_)
Itoa(n) == IF n < 10 THEN <<Digits[n + 1]>> ELSE Itoa(n \div 10) \o <<Digits[(n % 10) + 1]>>


(***************************************************************************)
(* The helper's engine (src/unnamed/part_001): Diff Analyzer, Change      *)
(* Classifier, Message Composer, Suggestion Aggregator.                    *)
(***************************************************************************)

\* The zero DiffInfo
EmptyDiffInfo == [LinesAdded |-> 0, LinesRemoved |-> 0, Functions |-> <<>>, Imports |-> <<>>]

extractFunctionName(line) ==
    LET goIdx == Index(line, <<"f","u","n","c"," ">>)
        goParts == Fields(SliceFrom(line, goIdx))
        jsIdx == Index(line, <<"f","u","n","c","t","i","o","n"," ">>)
        jsParts == Fields(SliceFrom(line, jsIdx))
        pyIdx == Index(line, <<"d","e","f"," ">>)
        pyParts == Fields(SliceFrom(line, pyIdx))
    IN  IF goIdx # -1 /\ Len(goParts) > 1
        THEN LET name == goParts[2]
                 parenIdx == Index(name, <<"(">>)
             IN  IF parenIdx # -1 THEN SliceTo(name, parenIdx) ELSE name
        ELSE IF jsIdx # -1 /\ Len(jsParts) > 1 THEN jsParts[2]
        ELSE IF pyIdx # -1 /\ Len(pyParts) > 1 THEN pyParts[2]
        ELSE <<>>

\* One step of parseDiffOutput's loop: info after scanning line
scanDiffLine(info, line) ==
    IF HasPrefix(line, <<"+">>) /\ ~HasPrefix(line, <<"+","+","+">>)
    THEN LET isDecl == \/ Contains(line, <<"f","u","n","c"," ">>)
                       \/ Contains(line, <<"f","u","n","c","t","i","o","n"," ">>)
                       \/ Contains(line, <<"d","e","f"," ">>)
                       \/ Contains(line, <<"c","l","a","s","s"," ">>)
             funcName == extractFunctionName(line)
             isImport == \/ Contains(line, <<"i","m","p","o","r","t"," ">>)
                         \/ Contains(line, <<"#","i","n","c","l","u","d","e">>)
                         \/ Contains(line, <<"f","r","o","m"," ">>)
         IN  [LinesAdded   |-> info.LinesAdded + 1,
              LinesRemoved |-> info.LinesRemoved,
              Functions    |-> IF isDecl /\ funcName # <<>>
                               THEN Append(info.Functions, funcName)
                               ELSE info.Functions,
              Imports      |-> IF isImport
                               THEN Append(info.Imports, TrimSpace(line))
                               ELSE info.Imports]
    ELSE IF HasPrefix(line, <<"-">>) /\ ~HasPrefix(line, <<"-","-","-">>)
    THEN [info EXCEPT !.LinesRemoved = @ + 1]
    ELSE info

RECURSIVE scanDiffLines(_, _)
scanDiffLines(info, lines) ==
    IF lines = <<>> THEN info
    ELSE scanDiffLines(scanDiffLine(info, Head(lines)), Tail(lines))

parseDiffOutput(diff) == scanDiffLines(EmptyDiffInfo, Split(diff, "\n"))

\* git is the outcome of the two diff commands for the file:
\* [stagedErr, staged, unstagedErr, unstaged]; a failed command's output is empty
getFileDiff(git) ==
    LET output == IF git.stagedErr
                  THEN (IF git.unstagedErr THEN <<>> ELSE git.unstaged)
                  ELSE git.staged
    IN  parseDiffOutput(output)

abs(x) == IF x < 0 THEN -x ELSE x

containsBugFixKeywords(diff) ==
    diff.LinesRemoved > 0 /\ diff.LinesAdded < diff.LinesRemoved

\* determineAdvancedCommitType, the "New files" branch
addedFileType(file, diff) ==
    IF Contains(file, <<"t","e","s","t">>) \/ HasSuffix(file, <<"_","t","e","s","t",".","g","o">>) THEN <<"t","e","s","t">>
    ELSE IF HasSuffix(file, <<".","m","d">>) \/ Contains(file, <<"R","E","A","D","M","E">>) THEN <<"d","o","c","s">>
    ELSE IF Len(diff.Functions) > 0 THEN <<"f","e","a","t">>
    ELSE <<"f","e","a","t">>

\* determineAdvancedCommitType, the "Modified files" branch
modifiedFileType(file, diff) ==
    LET fileName == Base(file)
    IN  IF \/ HasSuffix(file, <<".","m","d">>) \/ Contains(file, <<"R","E","A","D","M","E">>)
           \/ Contains(file, <<"d","o","c">>)
        THEN <<"d","o","c","s">>
        ELSE IF \/ Contains(file, <<"t","e","s","t">>) \/ HasSuffix(file, <<"_","t","e","s","t",".","g","o">>)
                \/ HasSuffix(file, <<".","t","e","s","t",".","j","s">>)
        THEN <<"t","e","s","t">>
        ELSE IF \/ Contains(file, <<"c","o","n","f","i","g">>) \/ HasSuffix(file, <<".","j","s","o","n">>)
                \/ HasSuffix(file, <<".","y","a","m","l">>) \/ HasSuffix(file, <<".","y","m","l">>)
                \/ HasSuffix(file, <<".","t","o","m","l">>) \/ fileName = <<"D","o","c","k","e","r","f","i","l","e">>
                \/ fileName = <<"M","a","k","e","f","i","l","e">> \/ HasSuffix(file, <<".","e","n","v">>)
        THEN <<"c","h","o","r","e">>
        ELSE IF \/ fileName = <<"p","a","c","k","a","g","e",".","j","s","o","n">> \/ fileName = <<"g","o",".","m","o","d">>
                \/ fileName = <<"r","e","q","u","i","r","e","m","e","n","t","s",".","t","x","t">> \/ fileName = <<"C","a","r","g","o",".","t","o","m","l">>
                \/ fileName = <<"p","o","m",".","x","m","l">>
        THEN (IF Len(diff.Imports) > 0 THEN <<"f","e","a","t">> ELSE <<"c","h","o","r","e">>)
        ELSE IF containsBugFixKeywords(diff) THEN <<"f","i","x">>
        ELSE IF Len(diff.Functions) > 0 \/ diff.LinesAdded > diff.LinesRemoved * 2
        THEN <<"f","e","a","t">>
        ELSE IF /\ diff.LinesAdded > 0 /\ diff.LinesRemoved > 0
                /\ abs(diff.LinesAdded - diff.LinesRemoved) < 10
        THEN <<"r","e","f","a","c","t","o","r">>
        ELSE IF diff.LinesAdded + diff.LinesRemoved < 10 THEN <<"f","i","x">>
        ELSE <<"f","e","a","t">>

\* determineAdvancedCommitType with the deleted-file test made before the
\* new-file test
determineAdvancedCommitTypeDeletedFirst(file, status, diff) ==
    IF Contains(status, <<"D">>) THEN <<"c","h","o","r","e">>
    ELSE IF Contains(status, <<"A">>) THEN addedFileType(file, diff)
    ELSE IF Contains(status, <<"M">>) THEN modifiedFileType(file, diff)
    ELSE <<"c","h","o","r","e">>

determineAdvancedCommitType(file, status, diff) ==
    IF Contains(status, <<"A">>) THEN addedFileType(file, diff)
    ELSE IF Contains(status, <<"D">>) THEN <<"c","h","o","r","e">>
    ELSE IF Contains(status, <<"M">>) THEN modifiedFileType(file, diff)
    ELSE <<"c","h","o","r","e">>

generateSmartCommitMessage(file, status, diff, commitType) ==
    LET fileName == Base(file)
        fileExt == Ext(file)
        baseName == TrimSuffix(fileName, fileExt)
    IN  IF status = <<"A">> THEN
            IF Len(diff.Functions) > 0 /\ Len(diff.Functions) = 1
            THEN <<"a","d","d"," ">> \o diff.Functions[1] \o <<" ","f","u","n","c","t","i","o","n">>
            ELSE <<"a","d","d"," ">> \o fileName
        ELSE IF status = <<"D">> THEN <<"r","e","m","o","v","e"," ">> \o fileName
        ELSE IF status = <<"M">> THEN
            IF commitType = <<"d","o","c","s">> THEN <<"u","p","d","a","t","e"," ">> \o baseName
            ELSE IF commitType = <<"t","e","s","t">> THEN <<"u","p","d","a","t","e"," ">> \o baseName \o <<" ","t","e","s","t","s">>
            ELSE IF Len(diff.Functions) > 0 /\ Len(diff.Functions) = 1
            THEN <<"u","p","d","a","t","e"," ">> \o diff.Functions[1] \o <<" ","f","u","n","c","t","i","o","n">>
            ELSE <<"u","p","d","a","t","e"," ">> \o baseName
        ELSE <<"m","o","d","i","f","y"," ">> \o fileName

determineScope(file) ==
    LET parts == Split(file, "/")
        firstDir == parts[1]
        fileName == Base(file)
    IN  IF Len(parts) > 1 THEN
            IF firstDir \in {<<"s","r","c">>, <<"l","i","b">>}
            THEN (IF Len(parts) > 2 THEN parts[2] ELSE <<"c","o","r","e">>)
            ELSE IF firstDir \in {<<"t","e","s","t","s">>, <<"t","e","s","t">>} THEN <<"t","e","s","t">>
            ELSE IF firstDir \in {<<"d","o","c","s">>, <<"d","o","c","u","m","e","n","t","a","t","i","o","n">>} THEN <<"d","o","c","s">>
            ELSE IF firstDir \in {<<"c","o","n","f","i","g">>, <<"c","o","n","f","i","g","s">>} THEN <<"c","o","n","f","i","g">>
            ELSE IF firstDir = <<"a","p","i">> THEN <<"a","p","i">>
            ELSE IF firstDir \in {<<"u","i">>, <<"f","r","o","n","t","e","n","d">>, <<"c","l","i","e","n","t">>} THEN <<"u","i">>
            ELSE IF firstDir \in {<<"b","a","c","k","e","n","d">>, <<"s","e","r","v","e","r">>} THEN <<"a","p","i">>
            ELSE IF firstDir \in {<<"s","c","r","i","p","t","s">>, <<"t","o","o","l","s">>} THEN <<"t","o","o","l","s">>
            ELSE firstDir
        ELSE IF Contains(fileName, <<"t","e","s","t">>) THEN <<"t","e","s","t">>
        ELSE IF HasSuffix(fileName, <<".","m","d">>) THEN <<"d","o","c","s">>
        ELSE IF Contains(fileName, <<"c","o","n","f","i","g">>) THEN <<"c","o","n","f","i","g">>
        ELSE <<>>

analyzeFileChange(change, diff) ==
    LET commitType == determineAdvancedCommitType(change.File, change.Status, diff)
    IN  [Type    |-> commitType,
         Message |-> generateSmartCommitMessage(change.File, change.Status, diff, commitType),
         Scope   |-> determineScope(change.File)]


\* typeCounts[suggestion.Type]++ over individual: the map as a function
typeCounts(individual) ==
    [t \in {individual[i].Type : i \in DOMAIN individual} |->
        Cardinality({i \in DOMAIN individual : individual[i].Type = t})]

\* The "most common type" loop over the map, visited in the sequence order;
\* found = <<mainType, maxCount>> so far
RECURSIVE mostCommonType(_, _, _)
mostCommonType(counts, order, found) ==
    IF order = <<>> THEN found[1]
    ELSE mostCommonType(counts, Tail(order),
                        IF counts[Head(order)] > found[2]
                        THEN <<Head(order), counts[Head(order)]>>
                        ELSE found)

\* The orders in which a range over a map with the keys may visit them
MapOrders(keys) ==
    {o \in [1..Cardinality(keys) -> keys] : \A i, j \in DOMAIN o : i # j => o[i] # o[j]}

\* The phrase of the combined message: the switch on mainType when the map
\* holds one type, "update multiple files" otherwise
combinedPhrase(mainType, nTypes) ==
    IF nTypes = 1
    THEN CASE mainType = <<"f","e","a","t">> -> <<"a","d","d"," ","f","e","a","t","u","r","e","s">>
           [] mainType = <<"f","i","x">> -> <<"f","i","x"," ","i","s","s","u","e","s">>
           [] mainType = <<"d","o","c","s">> -> <<"u","p","d","a","t","e"," ","d","o","c","s">>
           [] mainType = <<"t","e","s","t">> -> <<"u","p","d","a","t","e"," ","t","e","s","t","s">>
           [] mainType = <<"c","h","o","r","e">> -> <<"u","p","d","a","t","e"," ","c","o","n","f","i","g">>
           [] mainType = <<"r","e","f","a","c","t","o","r">> -> <<"r","e","f","a","c","t","o","r"," ","c","o","d","e">>
           [] OTHER -> <<"u","p","d","a","t","e"," ","f","i","l","e","s">>
    ELSE <<"u","p","d","a","t","e"," ","m","u","l","t","i","p","l","e"," ","f","i","l","e","s">>

\* withFileCount with the file count appended for a single file too
withFileCountAlways(message, totalFiles) ==
    message \o <<" ","(">> \o Itoa(totalFiles) \o <<" ","f","i","l","e","s",")">>

\* "Only add file count if more than 1 file"
withFileCount(message, totalFiles) ==
    IF totalFiles > 1
    THEN message \o <<" ","(">> \o Itoa(totalFiles) \o <<" ","f","i","l","e","s",")">>
    ELSE message

\* generateCombinedSuggestion(individual, nil) when the map is visited in order
generateCombinedSuggestion(individual, order) ==
    IF Len(individual) = 0 THEN [Type |-> <<>>, Message |-> <<>>]
    ELSE LET counts == typeCounts(individual)
             mainType == mostCommonType(counts, order, <<<<>>, 0>>)
         IN  [Type    |-> mainType,
              Message |-> withFileCount(combinedPhrase(mainType, Cardinality(DOMAIN counts)),
                                        Len(individual))]

\* The individual suggestions of analyzeChangesForCommits; diffs[i] is what
\* getFileDiff saw for changes[i]
individualSuggestions(changes, diffs) ==
    [i \in DOMAIN changes |->
        LET analysis == analyzeFileChange(changes[i], getFileDiff(diffs[i]))
        IN  [Type |-> analysis.Type, Message |-> analysis.Message]]

MaxIndividual == 3
MaxSuggestions == 5

\* retainSuggestions with the individual suggestions kept whenever the cap of
\* MaxSuggestions allows it
retainSuggestionsUpToCap(combinedSuggestion, individual) ==
    LET all == <<combinedSuggestion>> \o individual
    IN  IF Len(all) > MaxSuggestions THEN <<combinedSuggestion>> ELSE all

\* The retention policy of analyzeChangesForCommits, given the combined suggestion
retainSuggestions(combinedSuggestion, individual) ==
    LET withCombined == IF combinedSuggestion.Message # <<>>
                        THEN <<combinedSuggestion>> ELSE <<>>
        withIndividual == IF Len(individual) <= MaxIndividual
                          THEN withCombined \o individual ELSE withCombined
    IN  IF Len(withIndividual) > MaxSuggestions
        THEN SubSeq(withIndividual, 1, MaxSuggestions) ELSE withIndividual

\* analyzeChangesForCommits of the helper once the loop over changes has
\* built individualSuggestions, the map visited in order
suggestionsFrom(individual, order) ==
    retainSuggestions(generateCombinedSuggestion(individual, order), individual)

\* The results analyzeChangesForCommits(changes) can return: one for every
\* order in which the runtime may visit typeCounts
analyzeChangesForCommits(changes, diffs) ==
    LET individual == individualSuggestions(changes, diffs)
    IN  {suggestionsFrom(individual, order) :
            order \in MapOrders({individual[i].Type : i \in DOMAIN individual})}

(***************************************************************************)
(* The generator's engine (src/main.go:1529-1727).                         *)
(***************************************************************************)

\* One pass of getGitChanges' loop body over a porcelain line of at least 3
\* characters: the GitChange before analysis
parseStatusLine(line) ==
    [File |-> TrimSpace(SliceFrom(line, 3)), Status |-> TrimSpace(SliceTo(line, 2))]

\* determineScope of the generator
determineScopeGen(file) ==
    LET parts == Split(file, "/")
        dir == parts[1]
    IN  IF Contains(file, <<"t","e","s","t">>) THEN <<"t","e","s","t">>
        ELSE IF Contains(file, <<"d","o","c">>) \/ HasSuffix(file, <<".","m","d">>) THEN <<"d","o","c","s">>
        ELSE IF \/ Contains(file, <<"c","o","n","f","i","g">>) \/ Contains(file, <<".","j","s","o","n">>)
                \/ Contains(file, <<".","y","a","m","l">>)
        THEN <<"c","o","n","f","i","g">>
        ELSE IF Contains(file, <<"a","p","i">>) THEN <<"a","p","i">>
        ELSE IF Contains(file, <<"u","i">>) \/ Contains(file, <<"c","o","m","p","o","n","e","n","t">>) THEN <<"u","i">>
        ELSE IF Len(parts) > 1
        THEN (IF dir = <<"s","r","c">> /\ Len(parts) > 2 THEN parts[2] ELSE dir)
        ELSE <<>>

determineCommitType(file, status) ==
    IF Contains(status, <<"A">>) THEN <<"f","e","a","t">>
    ELSE IF Contains(status, <<"D">>) THEN <<"c","h","o","r","e">>
    ELSE IF \/ HasSuffix(file, <<".","m","d">>) \/ Contains(file, <<"R","E","A","D","M","E">>)
            \/ Contains(file, <<"d","o","c">>)
    THEN <<"d","o","c","s">>
    ELSE IF \/ Contains(file, <<"t","e","s","t">>) \/ Contains(file, <<".","t","e","s","t",".">>)
            \/ Contains(file, <<"_","t","e","s","t",".">>)
    THEN <<"t","e","s","t">>
    ELSE IF \/ Contains(file, <<"c","o","n","f","i","g">>) \/ HasSuffix(file, <<".","j","s","o","n">>)
            \/ HasSuffix(file, <<".","y","a","m","l">>)
    THEN <<"c","h","o","r","e">>
    ELSE IF Contains(status, <<"M">>) THEN <<"f","e","a","t">>
    ELSE <<"c","h","o","r","e">>

generateCommitMessage(file, status, commitType) ==
    LET fileName == Base(file)
        fileExt == Ext(file)
        baseName == TrimSuffix(fileName, fileExt)
    IN  IF status = <<"A">> THEN <<"a","d","d"," ">> \o fileName
        ELSE IF status = <<"D">> THEN <<"r","e","m","o","v","e"," ">> \o fileName
        ELSE IF status = <<"M">> THEN <<"u","p","d","a","t","e"," ">> \o baseName
        ELSE IF status = <<"R">> THEN <<"r","e","n","a","m","e"," ">> \o fileName
        ELSE <<"m","o","d","i","f","y"," ">> \o fileName

\* analyzeChange: the change with its suggested type, scope and message
analyzeChange(change) ==
    LET commitType == determineCommitType(change.File, change.Status)
    IN  [File             |-> change.File,
         Status           |-> change.Status,
         SuggestedType    |-> commitType,
         SuggestedScope   |-> determineScopeGen(change.File),
         SuggestedMessage |-> generateCommitMessage(change.File, change.Status, commitType)]

\* The message commitWithSuggestion hands to "git commit -m"
commitMessageOf(suggestion) ==
    LET head == IF suggestion.Scope # <<>>
                THEN suggestion.Type \o <<"(">> \o suggestion.Scope \o <<")">>
                ELSE suggestion.Type
        commitMsg == head \o <<":"," ">> \o suggestion.Message
    IN  IF suggestion.Breaking
        THEN commitMsg \o <<"\n","\n","B","R","E","A","K","I","N","G"," ","C","H","A","N","G","E",":"," ","T","h","i","s"," ","c","o","m","m","i","t"," ","i","n","t","r","o","d","u","c","e","s"," ","b","r","e","a","k","i","n","g"," ","c","h","a","n","g","e","s">>
        ELSE commitMsg

(***************************************************************************)
(* The commit grammar  ^([a-zA-Z]+)(?:\(([^)]+)\))?\s*:\s*(.+)$  shared by  *)
(* parseConventionalCommit (src/main.go:803) and parseCommitMessage        *)
(* (src/main.go:1709).                                                     *)
(***************************************************************************)

\* the number of leading characters of s that are letters: ([a-zA-Z]+) is greedy
RECURSIVE LeadingLetters(_)
LeadingLetters(s) ==
    IF s # <<>> /\ IsLetter(Head(s)) THEN 1 + LeadingLetters(Tail(s)) ELSE 0

\* \s and . of the regexp package on one character
IsRegexSpace(c) == c \in {" ", "\t", "\n", "\r", "\f"}
IsRegexDot(c) == c # "\n"

RECURSIVE LeadingRegexSpaces(_)
LeadingRegexSpaces(s) ==
    IF s # <<>> /\ IsRegexSpace(Head(s)) THEN 1 + LeadingRegexSpaces(Tail(s)) ELSE 0

\* \s*(.+)$ on the text after the colon: the subject, or <<>> when it does not
\* match.  \s* takes the leading spaces; when nothing is left for (.+) it gives
\* the last of them back.
matchSubject(rest) ==
    LET n == LeadingRegexSpaces(rest)
        tail == SubSeq(rest, n + 1, Len(rest))
    IN  IF \E i \in 1..Len(tail) : ~IsRegexDot(tail[i]) THEN <<>>
        ELSE IF tail # <<>> THEN tail
        ELSE IF n >= 1 /\ IsRegexDot(rest[n]) THEN <<rest[n]>>
        ELSE <<>>

\* \s*:\s*(.+)$ on the text after the type and the optional scope
matchSeparator(rest) ==
    LET n == LeadingRegexSpaces(rest)
    IN  IF n < Len(rest) /\ rest[n + 1] = ":"
        THEN matchSubject(SubSeq(rest, n + 2, Len(rest)))
        ELSE <<>>

\* re.FindStringSubmatch(s): <<whole, type, scope, subject>>, or <<>> when
\* the line does not match
FindStringSubmatch(s) ==
    LET k == LeadingLetters(s)
        afterType == SubSeq(s, k + 1, Len(s))
        closing == Index(afterType, <<")">>)
        scope == SubSeq(afterType, 2, closing)
        afterScope == SubSeq(afterType, closing + 2, Len(afterType))
    IN  IF k = 0 THEN <<>>
        ELSE IF afterType # <<>> /\ Head(afterType) = "("
        THEN IF closing >= 2 /\ matchSeparator(afterScope) # <<>>
             THEN <<s, SubSeq(s, 1, k), scope, matchSeparator(afterScope)>>
             ELSE <<>>
        ELSE IF matchSeparator(afterType) # <<>>
        THEN <<s, SubSeq(s, 1, k), <<>>, matchSeparator(afterType)>>
        ELSE <<>>

\* parseCommitMessage of the generator: <<type, scope, message>>
parseCommitMessage(message) ==
    LET matches == FindStringSubmatch(message)
    IN  IF Len(matches) >= 4 THEN <<matches[2], matches[3], matches[4]>>
        ELSE <<(IF Contains(ToLower(message), <<"f","i","x">>) THEN <<"f","i","x">>
                ELSE IF \/ Contains(ToLower(message), <<"a","d","d">>)
                        \/ Contains(ToLower(message), <<"f","e","a","t">>)
                THEN <<"f","e","a","t">>
                ELSE IF Contains(ToLower(message), <<"d","o","c">>) THEN <<"d","o","c","s">>
                ELSE <<"c","h","o","r","e">>),
               <<>>, message>>

(***************************************************************************)
(* The changelog tool's parser and validator (src/main.go:749-865).        *)
(***************************************************************************)

guessCommitType(subject) ==
    LET lower == ToLower(subject)
    IN  IF Contains(lower, <<"f","i","x">>) \/ Contains(lower, <<"b","u","g">>) THEN <<"f","i","x">>
        ELSE IF Contains(lower, <<"f","e","a","t">>) \/ Contains(lower, <<"a","d","d">>) THEN <<"f","e","a","t">>
        ELSE IF Contains(lower, <<"d","o","c">>) THEN <<"d","o","c","s">>
        ELSE IF Contains(lower, <<"t","e","s","t">>) THEN <<"t","e","s","t">>
        ELSE IF Contains(lower, <<"r","e","f","a","c","t","o","r">>) THEN <<"r","e","f","a","c","t","o","r">>
        ELSE IF Contains(lower, <<"s","t","y","l","e">>) \/ Contains(lower, <<"f","o","r","m","a","t">>) THEN <<"s","t","y","l","e">>
        ELSE IF Contains(lower, <<"p","e","r","f">>) \/ Contains(lower, <<"p","e","r","f","o","r","m","a","n","c","e">>) THEN <<"p","e","r","f">>
        ELSE <<"c","h","o","r","e">>

\* parseConventionalCommit(&commit, subject): the commit afterwards
parseConventionalCommit(commit, subject) ==
    LET matches == FindStringSubmatch(subject)
    IN  IF Len(matches) >= 4
        THEN [commit EXCEPT
                 !.Type = matches[2],
                 !.Scope = matches[3],
                 !.Subject = matches[4],
                 !.Breaking = IF \/ Contains(ToLower(matches[4]), <<"b","r","e","a","k","i","n","g">>)
                                 \/ Contains(ToLower(commit.Body), <<"b","r","e","a","k","i","n","g"," ","c","h","a","n","g","e">>)
                              THEN TRUE ELSE @]
        ELSE [commit EXCEPT !.Type = guessCommitType(subject), !.Subject = subject]

validTypes ==
    <<<<"f","e","a","t">>, <<"f","i","x">>, <<"d","o","c","s">>, <<"s","t","y","l","e">>, <<"r","e","f","a","c","t","o","r">>, <<"t","e","s","t">>, <<"c","h","o","r","e">>, <<"p","e","r","f">>,
      <<"c","i">>, <<"b","u","i","l","d">>, <<"r","e","v","e","r","t">>>>

validateCommitFormat(commit) == \E i \in DOMAIN validTypes : commit.Type = validTypes[i]

\* strconv of a run of decimal digits; -1 when s holds another character
RECURSIVE Atoi(_)
Atoi(s) ==
    IF s = <<>> THEN 0
    ELSE LET high == Atoi(SubSeq(s, 1, Len(s) - 1))
             low == Index(Digits, <<s[Len(s)]>>)
         IN  IF high < 0 \/ low < 0 THEN -1 ELSE high * 10 + low

\* time.Time{}: what time.Parse leaves when it fails
ZeroTime == -2000000000

\* time.Parse("2006-01-02 15:04:05 -0700", text) as seconds, counted from the
\* year 2000 with every month taken as 31 days, which keeps the order of
\* the instants
parseDate(text) ==
    LET num(from, to) == Atoi(SubSeq(text, from, to))
        year == num(1, 4)
        month == num(6, 7)
        day == num(9, 10)
        hour == num(12, 13)
        minute == num(15, 16)
        second == num(18, 19)
        zone == num(22, 23) * 3600 + num(24, 25) * 60
    IN  IF /\ Len(text) = 25
           /\ text[5] = "-" /\ text[8] = "-" /\ text[11] = " "
           /\ text[14] = ":" /\ text[17] = ":" /\ text[20] = " "
           /\ text[21] \in {"+", "-"}
           /\ year >= 0 /\ month \in 1..12 /\ day \in 1..31
           /\ hour \in 0..23 /\ minute \in 0..59 /\ second \in 0..59
           /\ num(22, 23) \in 0..23 /\ num(24, 25) \in 0..59
        THEN ((((year - 2000) * 12 + (month - 1)) * 31 + (day - 1)) * 24 + hour) * 3600
             + minute * 60 + second
             - (IF text[21] = "+" THEN zone ELSE 0 - zone)
        ELSE ZeroTime

\* getGitCommits' loop body for a record of at least 5 fields: the Commit
\* appended for it
commitOfRecord(parts) ==
    LET commit == [Hash |-> parts[1], Author |-> parts[3], Email |-> parts[4],
                   Date |-> parseDate(parts[5]),
                   Body |-> IF Len(parts) > 5 THEN parts[6] ELSE <<>>,
                   Type |-> <<>>, Scope |-> <<>>, Subject |-> <<>>,
                   Breaking |-> FALSE, Validated |-> FALSE]
        parsed == parseConventionalCommit(commit, parts[2])
    IN  [parsed EXCEPT !.Validated = validateCommitFormat(parsed)]

(***************************************************************************)
(* State.  input/output hold the arguments and the result of one engine   *)
(* call.                                                                   *)
(***************************************************************************)
VARIABLES input, output, env, disk, m, inflight, program

vars == <<input, output, env, disk, m, inflight, program>>

\* The state of a program under the runtime: env the program that runs and
\* the bubbles release it is built with, disk the files it writes, m its
\* model, inflight its commands not yet completed, program "running" until it
\* ends.  No program runs while the engine is called on its own.
programVars == <<env, disk, m, inflight, program>>

NoProgram ==
    /\ env = [tool |-> "none", clampOnSetRows |-> FALSE, cursorStaysAtStart |-> FALSE]
    /\ disk = <<>>
    /\ m = <<>>
    /\ inflight = {}
    /\ program = "off"

\* output before the call has returned, and after it returned value
NoOutput == [done |-> FALSE, value |-> <<>>]
Returned(value) == [done |-> TRUE, value |-> value]

(***************************************************************************)
(* Working trees the engine is run on.                                     *)
(***************************************************************************)

\* Outcomes of the two "git diff" commands for a file
Staged(text) == [stagedErr |-> FALSE, staged |-> text, unstagedErr |-> FALSE, unstaged |-> <<>>]

\* A status line's change together with the diffs git reports for the file
Entry(file, status, git) == [change |-> [File |-> file, Status |-> status], git |-> git]

\* Files of different kinds
VariedTree ==
    << Entry(<<"s","r","c","/","a","u","t","h","/","l","o","g","i","n",".","g","o">>, <<"M">>, Staged(<<"+","f","u","n","c"," ","L","o","g","i","n","(","u"," ","s","t","r","i","n","g",")"," ","{","\n","+","}","\n">>)),
       Entry(<<"R","E","A","D","M","E",".","m","d">>, <<"M">>, Staged(<<"+","m","o","r","e"," ","w","o","r","d","s","\n">>)),
       Entry(<<"a","u","t","h","_","t","e","s","t",".","g","o">>, <<"A">>, Staged(<<"+","p","a","c","k","a","g","e"," ","a","u","t","h","\n">>)),
       Entry(<<"o","l","d",".","t","x","t">>, <<"D">>, Staged(<<"-","g","o","n","e","\n">>)),
       Entry(<<"l","i","b","/","u","t","i","l",".","p","y">>, <<"M">>, Staged(<<"-","x"," ","="," ","1","\n","+","x"," ","="," ","2","\n">>)),
       Entry(<<"c","m","d","/","r","u","n",".","g","o">>, <<"M">>, Staged(<<"-","r","e","t","u","r","n"," ","n","i","l","\n">>)),
       Entry(<<"n","o","t","e","s",".","t","x","t">>, <<"?","?">>, Staged(<<>>)) >>

\* The i-th of a family of modified files with one line removed
BulkEntry(i) == Entry(<<"p","k","g","/","f">> \o Itoa(i) \o <<".","g","o">>, <<"M">>, Staged(<<"-","b","a","d","(",")","\n">>))

MaxFiles == 4
MaxBulk == 10

\* Change lists: up to MaxFiles distinct files of VariedTree in any order, and
\* the first n bulk files for n up to MaxBulk
VariedLists ==
    UNION {{o \in [1..n -> 1..Len(VariedTree)] : \A i, j \in 1..n : i # j => o[i] # o[j]}
           : n \in 0..MaxFiles}

AggInputs ==
    {[changes |-> [i \in DOMAIN o |-> VariedTree[o[i]].change],
      diffs   |-> [i \in DOMAIN o |-> VariedTree[o[i]].git]] : o \in VariedLists}
    \cup
    {[changes |-> [i \in 1..n |-> BulkEntry(i).change],
      diffs   |-> [i \in 1..n |-> BulkEntry(i).git]] : n \in 1..MaxBulk}

(***************************************************************************)
(* SpecAgg: the helper's Suggestion Aggregator applied to a change list.  *)
(***************************************************************************)
InitAgg ==
    /\ input \in AggInputs
    /\ output = NoOutput
    /\ NoProgram

\* analyzeChangesForCommits(changes); the range over typeCounts visits the
\* map in an order the runtime picks
Analyze ==
    /\ ~output.done
    /\ \E suggestions \in analyzeChangesForCommits(input.changes, input.diffs) :
          output' = Returned(suggestions)
    /\ UNCHANGED <<input, programVars>>

NextAgg == Analyze

SpecAgg == InitAgg /\ [][NextAgg]_vars


(***************************************************************************)
(* SpecClassify: one line of "git status --porcelain" and the diffs of its *)
(* file, classified by the helper (analyzeFileChange) or by the generator  *)
(* (analyzeChange).                                                        *)
(***************************************************************************)
Paths ==
    { <<"m","a","i","n",".","g","o">>, <<"a","u","t","h","_","t","e","s","t",".","g","o">>, <<"R","E","A","D","M","E",".","m","d">>, <<"d","o","c","s","/","g","u","i","d","e",".","t","x","t">>, <<"c","o","n","f","i","g",".","y","a","m","l">>,
      <<"p","a","c","k","a","g","e",".","j","s","o","n">>, <<"s","r","c","/","a","u","t","h","/","l","o","g","i","n",".","g","o">>, <<"l","i","b","/","x",".","p","y">>, <<".","e","n","v">>, <<"M","a","k","e","f","i","l","e">>,
      <<"a",")","b","/","x",".","g","o">>, <<"a","p","i","/","h",".","g","o">>, <<"g","o",".","m","o","d">> }

\* The two status columns of a porcelain line
PorcelainCodes ==
    { <<"A"," ">>, <<" ","M">>, <<"M"," ">>, <<"D"," ">>, <<" ","D">>, <<"R"," ">>, <<"C"," ">>, <<"?","?">>, <<"A","M">>, <<"A","D">>, <<"M","D">>, <<"U","U">> }

Diffs ==
    { <<>>,
      <<"+","f","u","n","c"," ","L","o","g","i","n","(","u"," ","s","t","r","i","n","g",")"," ","{","\n","+","}","\n">>,
      <<"+","d","e","f"," ","f","o","o","(","x",")",":","\n","+","f","u","n","c","t","i","o","n"," ","b","a","r","(","y",")"," ","{","\n">>,
      <<"-","g","o","n","e","\n">>,
      <<"-","x"," ","="," ","1","\n","+","x"," ","="," ","2","\n">>,
      <<"+","f","u","n","c","t","i","o","n"," ","r","e","n","d","e","r","(","p","r","o","p","s",")"," ","{","\n","-","o","l","d","(",")","\n","-","o","l","d","e","r","(",")","\n">>,
      <<"+","c","l","a","s","s"," ","F","o","o",":","\n","+","f","u","n","c"," ","L","o","g","i","n","(","u"," ","s","t","r","i","n","g",")"," ","{","\n","+","f","u","n","c"," ","L","o","g","i","n","(","u"," ","s","t","r","i","n","g",")"," ","{","\n">> }

\* Outcomes of "git diff --cached" and "git diff" for the file: the change is
\* staged; or nothing is staged, or the first command fails, and the second
\* reports the change or fails too
DiffOutcomes ==
    {Staged(diff) : diff \in Diffs}
    \cup {[stagedErr |-> FALSE, staged |-> <<"-","g","o","n","e","\n">>,
            unstagedErr |-> FALSE, unstaged |-> <<"+","f","u","n","c"," ","L","o","g","i","n","(","u"," ","s","t","r","i","n","g",")"," ","{","\n","+","}","\n">>]}
    \cup {[stagedErr |-> failed, staged |-> <<>>, unstagedErr |-> FALSE, unstaged |-> diff] :
             failed \in BOOLEAN, diff \in {<<"+","f","u","n","c"," ","L","o","g","i","n","(","u"," ","s","t","r","i","n","g",")"," ","{","\n","+","}","\n">>, <<"-","g","o","n","e","\n">>}}
    \cup {[stagedErr |-> failed, staged |-> <<>>, unstagedErr |-> TRUE, unstaged |-> <<>>] :
             failed \in BOOLEAN}

ClassifyInputs ==
    {[line |-> code \o <<" ">> \o path, git |-> git] :
        code \in PorcelainCodes, path \in Paths, git \in DiffOutcomes}

InitClassify ==
    /\ input \in ClassifyInputs
    /\ output = NoOutput
    /\ NoProgram

\* The helper: getGitChanges reads the line, analyzeChangesForCommits gets the
\* file's diff and analyzes the change
AnalyzeFileChange ==
    /\ ~output.done
    /\ LET change == parseStatusLine(input.line)
           diff == getFileDiff(input.git)
           analysis == analyzeFileChange(change, diff)
       IN  output' = Returned([tool |-> "helper", File |-> change.File,
                               Status |-> change.Status, Functions |-> diff.Functions,
                               Diff |-> diff,
                               Type |-> analysis.Type, Scope |-> analysis.Scope,
                               Message |-> analysis.Message])
    /\ UNCHANGED <<input, programVars>>

\* The generator: getGitChanges reads the line and analyzes the change
AnalyzeChange ==
    /\ ~output.done
    /\ LET change == analyzeChange(parseStatusLine(input.line))
       IN  output' = Returned([tool |-> "generator", File |-> change.File,
                               Status |-> change.Status, Functions |-> <<>>,
                               Type |-> change.SuggestedType,
                               Scope |-> change.SuggestedScope,
                               Message |-> change.SuggestedMessage])
    /\ UNCHANGED <<input, programVars>>

NextClassify == AnalyzeFileChange \/ AnalyzeChange

SpecClassify == InitClassify /\ [][NextClassify]_vars

(***************************************************************************)
(* SpecParse: one record of "git log" parsed by the changelog tool        *)
(* (getGitCommits) or its subject by the generator (loadGitHistory).       *)
(***************************************************************************)
SubjectHeads == { <<"f","e","a","t">>, <<"F","i","x">>, <<"d","o","c","s">>, <<"u","p","d","a","t","e">>, <<"w","i","p","2">>, <<>> }
SubjectScopes == { <<>>, <<"(","a","u","t","h",")">>, <<"(","a">>, <<"(",")">> }
SubjectSeparators == { <<":"," ">>, <<":">>, <<" ",":"," ">>, <<" ">> }
SubjectRests ==
    { <<"a","d","d"," ","l","o","g","i","n">>, <<"B","R","E","A","K","I","N","G"," ","a","p","i">>, <<"s","t","u","f","f">>, <<"p","e","r","f"," ","t","e","s","t">>, <<"b","u","g"," ","f","o","r","m","a","t">>,
      <<"r","e","f","a","c","t","o","r"," ","d","o","c","s">>, <<"n","e","w"," ","s","t","y","l","e">>, <<>> }

Subjects ==
    {h \o sc \o sep \o r : h \in SubjectHeads, sc \in SubjectScopes,
                           sep \in SubjectSeparators, r \in SubjectRests}

\* The fields after the subject: author, email, date and, when present, body
RecordTails ==
    { <<<<"A","n","n">>, <<"a","n","n","@","x",".","o","r","g">>, <<"2","0","2","4","-","0","5","-","0","1"," ","1","0",":","0","0",":","0","0"," ","+","0","0","0","0">>>>,
      <<<<"A","n","n">>, <<"a","n","n","@","x",".","o","r","g">>, <<"2","0","2","4","-","0","5","-","0","1"," ","1","0",":","0","0",":","0","0"," ","+","0","0","0","0">>, <<>>>>,
      <<<<"A","n","n">>, <<"a","n","n","@","x",".","o","r","g">>, <<"2","0","2","4","-","0","5","-","0","1"," ","1","0",":","0","0",":","0","0"," ","+","0","0","0","0">>, <<"B","R","E","A","K","I","N","G"," ","C","H","A","N","G","E",":"," ","d","r","o","p"," ","v","1">>>>,
      <<<<"A","n","n">>, <<"a","n","n","@","x",".","o","r","g">>, <<"2","0","2","4","-","0","5","-","0","1"," ","1","0",":","0","0",":","0","0"," ","+","0","0","0","0">>, <<"m","o","r","e"," ","d","o","c","s">>>> }

ParseInputs ==
    {<<<<"0","1","2","3","4","5","6","7","8","9","a","b","c","d","e","f">>, subject>> \o tail : subject \in Subjects, tail \in RecordTails}

InitParse ==
    /\ input \in ParseInputs
    /\ output = NoOutput
    /\ NoProgram

\* The changelog tool: getGitCommits builds the Commit of the record
ParseRecord ==
    /\ ~output.done
    /\ LET commit == commitOfRecord(input)
       IN  output' = Returned([tool |-> "changelog", Type |-> commit.Type,
                               Scope |-> commit.Scope, Subject |-> commit.Subject,
                               Breaking |-> commit.Breaking,
                               Validated |-> commit.Validated])
    /\ UNCHANGED <<input, programVars>>

\* The generator: loadGitHistory parses the subject for the history table
ParseHistoryLine ==
    /\ ~output.done
    /\ LET parsed == parseCommitMessage(input[2])
       IN  output' = Returned([tool |-> "generator", Type |-> parsed[1],
                               Scope |-> parsed[2], Subject |-> parsed[3],
                               Breaking |-> FALSE, Validated |-> FALSE])
    /\ UNCHANGED <<input, programVars>>

NextParse == ParseRecord \/ ParseHistoryLine

SpecParse == InitParse /\ [][NextParse]_vars

(***************************************************************************)
(* The three terminal programs.  Each is a Bubble Tea program: the runtime *)
(* hands every message (a key press, a window size, the result of a        *)
(* command) to model.Update, which returns the next model and the commands *)
(* to run; a command runs in the background and its result comes back as a *)
(* message.                                                                *)
(*   helper     src/unnamed/part_001   "Git Commit Helper"                 *)
(*   generator  src/main.go:990-1754   "Git Commit Message Generator"      *)
(*   changelog  src/main.go:1-989      "Changelog Generator"               *)
(***************************************************************************)

\* msg.String() of the key presses: every key one of the programs binds, the
\* keys its components bind, and the unbound rune x
Keys ==
    {"q", "ctrl+c", "1", "2", "3", "e", "r", "a", "p", "s", "g", "c", "v",
     "enter", "esc", "tab", "up", "down", "x"}

\* The keys that are one printable character
Runes == {"q", "1", "2", "3", "e", "r", "a", "p", "s", "g", "c", "v", "x"}

\* The runes typed into a focused text input, and the longest text typed into
MaxInput == 1
TypedRunes == {"a", "x"}

\* Commands dispatched by key presses and not yet completed, at most
MaxInflight == 1

\* Ticks of the changelog tool's clock, at most
MaxTicks == 1

\* Terminal sizes reported by tea.WindowSizeMsg
Sizes == {<<80, 24>>}

\* "git status --porcelain" and "git diff" of the repository while the helper
\* or the generator runs: nothing changed, or these files
Worktree ==
    << Entry(<<"m","a","i","n",".","g","o">>, <<"M">>, Staged(<<"+","f","u","n","c"," ","R","u","n","(",")"," ","{","\n">>)),
       Entry(<<"R","E","A","D","M","E",".","m","d">>, <<"M">>, Staged(<<"+","m","o","r","e"," ","w","o","r","d","s","\n">>)) >>

Worktrees == {<<>>, Worktree}

\* The output of "git log --pretty=format:%H|%s|%an|%ae|%ad|%b" while the
\* changelog tool runs.  A body of several lines continues on the lines after
\* its record: here one with a pipe, and a blank one.
GitLog ==
    <<"f","e","d","c","b","a","9","8","7","6","5","4","3","2","1","0","|","t","e","s","t","s",":"," ","y","|","B","o","b","|","b","@","x",".","o","r","g","|","2","0","2","4","-","0","5","-","0","2"," ","1","0",":","0","0",":","0","0"," ","+","0","0","0","0","|","f","i","r","s","t"," ","l","i","n","e","\n","s","e","e"," ","a","|","b","\n","\n","0","1","2","3","4","5","6","7","8","9","a","b","c","d","e","f","|","f","e","a","t","(","a","u","t","h",")",":"," ","a","d","d"," ","l","o","g","i","n","|","A","n","n","|","a","@","x",".","o","r","g","|","2","0","2","4","-","0","5","-","0","1"," ","1","0",":","0","0",":","0","0"," ","+","0","0","0","0","|">>

\* A body whose second line is the row of a table
GitLogOfTable ==
    <<"f","e","d","c","b","a","9","8","7","6","5","4","3","2","1","0","|","d","o","c","s",":"," ","z","|","B","o","b","|","b","@","x",".","o","r","g","|","2","0","2","4","-","0","5","-","0","2"," ","1","0",":","0","0",":","0","0"," ","+","0","0","0","0","|","s","i","z","e","s","\n","|","a","|","b","|","c","|","d","|">>

GitLogs == {<<>>, GitLog, GitLogOfTable}

\* ---- bubbles components -------------------------------------------------

\* table.Model: the cursor and the number of rows
tableNew == [cursor |-> 0, rows |-> 0]

\* clamp of the table package
clamp(v, low, high) ==
    LET atLeast == IF v > low THEN v ELSE low
    IN  IF atLeast < high THEN atLeast ELSE high

\* table.SetRows: releases of bubbles differ in whether the cursor is pulled
\* back onto the last row
tableSetRows(t, n) ==
    [cursor |-> IF env.clampOnSetRows /\ t.cursor > n - 1 THEN n - 1 ELSE t.cursor,
     rows   |-> n]

\* table.Update on a key press: MoveUp(1) and MoveDown(1)
tableUpdate(t, key) ==
    IF key = "up" THEN [t EXCEPT !.cursor = clamp(t.cursor - 1, 0, t.rows - 1)]
    ELSE IF key = "down" THEN [t EXCEPT !.cursor = clamp(t.cursor + 1, 0, t.rows - 1)]
    ELSE t

\* list.Model of n items: Index() after list.Update on a key press
listUpdate(index, n, key) ==
    IF key = "up" THEN (IF index - 1 >= 0 THEN index - 1 ELSE 0)
    ELSE IF key = "down"
    THEN (IF index + 1 < n THEN index + 1
          ELSE IF index + 1 > n THEN 0
          ELSE IF n > 0 THEN n - 1 ELSE 0)
    ELSE index

\* list.SelectedItem(): <<item>>, or <<>> for nil
SelectedItem(items, index) ==
    IF index < 0 \/ Len(items) = 0 \/ Len(items) <= index THEN <<>>
    ELSE <<items[index + 1]>>

\* textinput.Model: the value, the focus, and the cursor as the number of
\* runes before it
textinputNew == [value |-> <<>>, focus |-> FALSE, pos |-> 0]

\* textinput.SetValue: the cursor goes to the end when it is past the end or at
\* the start; releases of bubbles differ in whether a cursor at the start of a
\* non-empty value stays there
textinputSetValue(ti, value) ==
    LET atStart == ti.pos = 0 /\ (env.cursorStaysAtStart => ti.value = <<>>)
    IN  [ti EXCEPT !.value = value,
                   !.pos = IF atStart \/ ti.pos > Len(value) THEN Len(value) ELSE ti.pos]

\* textinput.Update on a key press, when focused: a rune is inserted at the
\* cursor, backspace deletes the rune before it
textinputUpdate(ti, key) ==
    IF ti.focus /\ key \in Runes
    THEN [ti EXCEPT !.value = SubSeq(@, 1, ti.pos) \o <<key>> \o SubSeq(@, ti.pos + 1, Len(@)),
                    !.pos = @ + 1]
    ELSE IF ti.focus /\ key = "backspace" /\ ti.pos > 0
    THEN [ti EXCEPT !.value = SubSeq(@, 1, ti.pos - 1) \o SubSeq(@, ti.pos + 1, Len(@)),
                    !.pos = @ - 1]
    ELSE ti

\* ---- messages and commands ----------------------------------------------

statusMsg(message) == [type |-> "statusMsg", message |-> message]
KeyMsg(key) == [type |-> "KeyMsg", key |-> key]
WindowSizeMsg(size) == [type |-> "WindowSizeMsg", Width |-> size[1], Height |-> size[2]]

\* showStatus(msg), and the func literal of the helper's refresh
showStatus(message) == [cmd |-> "showStatus", message |-> message]

Quit == [cmd |-> "tea.Quit"]
tickCmd == [cmd |-> "tickCmd"]

\* The result of Update: the model, the commands, and the configurations
\* saveConfig wrote meanwhile
Updated(mdl, commands) ==
    [m |-> mdl, cmds |-> commands, saved |-> <<>>, panic |-> FALSE]

\* Update panicked: a slice bound out of range
Panicked(mdl) == [m |-> mdl, cmds |-> {}, saved |-> <<>>, panic |-> TRUE]

\* ---- the helper (src/unnamed/part_001) ----------------------------------

\* main(): the model handed to tea.NewProgram
helperModel ==
    [state |-> "files", changes |-> <<>>, suggestions |-> <<>>,
     suggestionsList |-> 0, customInput |-> textinputNew, editInput |-> textinputNew,
     width |-> 100, height |-> 24, statusMsg |-> <<>>]

loadGitChanges == [cmd |-> "loadGitChanges"]
generateSuggestions(mdl) == [cmd |-> "generateSuggestions", changes |-> mdl.changes]
gitAddAll == [cmd |-> "gitAddAll"]
gitPush == [cmd |-> "gitPush"]
gitStatus == [cmd |-> "gitStatus"]
commitWithMessage(message) == [cmd |-> "commitWithMessage", message |-> message]

\* The tail of Update: the component of the current state gets the key
helperComponentUpdate(mdl, key) ==
    CASE mdl.state = "suggestions" ->
            [mdl EXCEPT !.suggestionsList = listUpdate(@, Len(mdl.suggestions), key)]
      [] mdl.state = "custom" ->
            [mdl EXCEPT !.customInput = textinputUpdate(@, key)]
      [] mdl.state = "edit" ->
            [mdl EXCEPT !.editInput = textinputUpdate(@, key)]
      [] OTHER -> mdl

\* case tea.KeyMsg of the helper's Update
helperKeyMsg(mdl, key) ==
    LET selected == SelectedItem(mdl.suggestions, mdl.suggestionsList)
    IN  CASE key \in {"q", "ctrl+c"} -> Updated(mdl, {Quit})
          [] key = "1" -> Updated([mdl EXCEPT !.state = "files"], {})
          [] key = "2" ->
                Updated(IF Len(mdl.suggestions) > 0
                        THEN [mdl EXCEPT !.state = "suggestions"] ELSE mdl, {})
          [] key = "3" ->
                Updated([mdl EXCEPT !.state = "custom", !.customInput.focus = TRUE], {})
          [] key = "e" ->
                Updated(IF /\ mdl.state = "suggestions"
                           /\ Len(mdl.suggestions) > 0
                           /\ selected # <<>>
                        THEN [mdl EXCEPT !.state = "edit",
                                         !.editInput =
                                             [textinputSetValue(@, selected[1].Message)
                                                 EXCEPT !.focus = TRUE]]
                        ELSE mdl, {})
          [] key = "r" -> Updated(mdl, {loadGitChanges, showStatus(<<"Refreshing...">>)})
          [] key = "a" -> Updated(mdl, {gitAddAll})
          [] key = "p" -> Updated(mdl, {gitPush})
          [] key = "s" -> Updated(mdl, {gitStatus})
          [] key = "enter" ->
                Updated(mdl,
                    CASE mdl.state = "suggestions" ->
                            IF Len(mdl.suggestions) > 0 /\ selected # <<>>
                            THEN {commitWithMessage(selected[1].Message)} ELSE {}
                      [] mdl.state = "custom" ->
                            IF mdl.customInput.value # <<>>
                            THEN {commitWithMessage(mdl.customInput.value)} ELSE {}
                      [] mdl.state = "edit" ->
                            IF mdl.editInput.value # <<>>
                            THEN {commitWithMessage(mdl.editInput.value)} ELSE {}
                      [] OTHER -> {})
          [] key = "esc" ->
                Updated(IF mdl.state = "custom"
                        THEN [mdl EXCEPT !.customInput = textinputNew, !.state = "files"]
                        ELSE IF mdl.state = "edit"
                        THEN [mdl EXCEPT !.editInput = textinputNew, !.state = "suggestions"]
                        ELSE mdl, {})
          [] OTHER -> Updated(helperComponentUpdate(mdl, key), {})

\* case gitChangesMsg with the loaded changes staged as well
helperGitChangesMsgStaging(mdl, message) ==
    LET loaded == [mdl EXCEPT
                      !.changes = message.changes,
                      !.statusMsg = <<"Loaded changed files", Len(message.changes)>>]
    IN  Updated(loaded, {generateSuggestions(loaded), gitAddAll})

\* case gitChangesMsg of the helper's Update
helperGitChangesMsg(mdl, message) ==
    LET loaded == [mdl EXCEPT
                      !.changes = message.changes,
                      !.statusMsg = <<"Loaded changed files", Len(message.changes)>>]
    IN  Updated(loaded, {generateSuggestions(loaded)})

\* model.Update of the helper
helperUpdate(mdl, message) ==
    CASE message.type = "statusMsg" ->
            Updated([mdl EXCEPT !.statusMsg = message.message], {})
      [] message.type = "gitChangesMsg" -> helperGitChangesMsg(mdl, message)
      [] message.type = "commitSuggestionsMsg" ->
            Updated([mdl EXCEPT
                        !.suggestions = message.suggestions,
                        !.statusMsg = <<"Generated commit suggestions",
                                        Len(message.suggestions)>>], {})
      [] message.type = "WindowSizeMsg" ->
            Updated([mdl EXCEPT !.width = message.Width, !.height = message.Height], {})
      [] message.type = "KeyMsg" -> helperKeyMsg(mdl, message.key)

\* getFileDiff(change.File) for each change: what git reports for the file
DiffsOf(changes) ==
    [i \in DOMAIN changes |->
        LET known == {j \in DOMAIN Worktree : Worktree[j].change.File = changes[i].File}
        IN  IF known = {} THEN Staged(<<>>) ELSE Worktree[CHOOSE j \in known : TRUE].git]

\* The messages a command of the helper can come back with
helperOutcomes(c) ==
    CASE c.cmd = "loadGitChanges" ->
            {[type |-> "gitChangesMsg", changes |-> [i \in DOMAIN w |-> w[i].change]]
                : w \in Worktrees}
            \cup {statusMsg(<<"Failed to load changes">>)}
      [] c.cmd = "generateSuggestions" ->
            {[type |-> "commitSuggestionsMsg", suggestions |-> s]
                : s \in analyzeChangesForCommits(c.changes, DiffsOf(c.changes))}
      [] c.cmd = "showStatus" -> {statusMsg(c.message)}
      [] c.cmd = "gitAddAll" ->
            {statusMsg(<<"All changes staged (git add .)">>), statusMsg(<<"Git add failed">>)}
      [] c.cmd = "gitPush" ->
            {statusMsg(<<"Pushed to remote repository">>), statusMsg(<<"Git push failed">>)}
      [] c.cmd = "gitStatus" ->
            {statusMsg(<<"Working tree clean">>), statusMsg(<<"Git status failed">>)}
            \cup {statusMsg(<<"files modified", Len(w)>>) : w \in Worktrees \ {<<>>}}
      [] c.cmd = "commitWithMessage" ->
            {statusMsg(<<"Committed", c.message>>), statusMsg(<<"Commit failed">>)}
      [] c.cmd = "tea.Quit" -> {[type |-> "QuitMsg"]}

\* ---- the generator (src/main.go:990-1754) --------------------------------

\* analyzeChangesForCommits of the generator when the range over typeGroups
\* visits its keys in order: one suggestion per "type:scope" key.  Confidence
\* is held in hundredths.
groupKey(change) == change.SuggestedType \o <<":">> \o change.SuggestedScope

groupMessage(commitType, scope) ==
    CASE commitType = <<"f","e","a","t">> -> <<"a","d","d"," ">> \o scope \o <<" ","f","u","n","c","t","i","o","n","a","l","i","t","y">>
      [] commitType = <<"f","i","x">> -> <<"f","i","x"," ">> \o scope \o <<" ","i","s","s","u","e","s">>
      [] commitType = <<"d","o","c","s">> -> <<"u","p","d","a","t","e"," ">> \o scope \o <<" ","d","o","c","u","m","e","n","t","a","t","i","o","n">>
      [] commitType = <<"t","e","s","t">> -> <<"a","d","d"," ">> \o scope \o <<" ","t","e","s","t","s">>
      [] commitType = <<"c","h","o","r","e">> -> <<"u","p","d","a","t","e"," ">> \o scope \o <<" ","c","o","n","f","i","g","u","r","a","t","i","o","n">>
      [] OTHER -> <<"u","p","d","a","t","e"," ">> \o scope

groupSuggestion(changes, key) ==
    LET groupChanges == SelectSeq(changes, LAMBDA change : groupKey(change) = key)
        parts == Split(key, ":")
    IN  [Type       |-> parts[1],
         Scope      |-> parts[2],
         Message    |-> IF Len(groupChanges) = 1 THEN groupChanges[1].SuggestedMessage
                        ELSE groupMessage(parts[1], parts[2]),
         Breaking   |-> FALSE,
         Confidence |-> IF Len(groupChanges) = 1 THEN 90 ELSE 80]

analyzeChangesForCommitsGen(changes) ==
    {[i \in DOMAIN order |-> groupSuggestion(changes, order[i])] :
        order \in MapOrders({groupKey(changes[i]) : i \in DOMAIN changes})}

\* main(): the model handed to tea.NewProgram.  changesArray names the
\* backing array of the changes slice, which the copies of the model held by
\* commands share.
generatorModel ==
    [currentPage |-> "changes", changes |-> <<>>, changesArray |-> 0,
     suggestions |-> <<>>, changesTable |-> tableNew, suggestionsTable |-> tableNew,
     editMode |-> FALSE, editRow |-> -1, editCol |-> -1, textInput |-> textinputNew,
     width |-> 100, height |-> 24, statusMsg |-> <<>>]

generateSuggestionsGen(mdl) ==
    [cmd |-> "generateSuggestions", changes |-> mdl.changes, array |-> mdl.changesArray]
loadGitHistoryGen == [cmd |-> "loadGitHistory"]
commitWithSuggestion(mdl) ==
    [cmd |-> "commitWithSuggestion", suggestions |-> mdl.suggestions,
     cursor |-> mdl.suggestionsTable.cursor]

updateChangesTable(mdl) ==
    [mdl EXCEPT !.changesTable = tableSetRows(@, Len(mdl.changes))]

updateSuggestionsTable(mdl) ==
    [mdl EXCEPT !.suggestionsTable = tableSetRows(@, Len(mdl.suggestions))]

setEditValueGen(mdl) ==
    IF mdl.currentPage = "changes" /\ mdl.editRow >= 0 /\ mdl.editRow < Len(mdl.changes)
    THEN LET change == mdl.changes[mdl.editRow + 1]
         IN  CASE mdl.editCol = 2 -> [mdl EXCEPT !.textInput = textinputSetValue(@, change.SuggestedType)]
               [] mdl.editCol = 3 -> [mdl EXCEPT !.textInput = textinputSetValue(@, change.SuggestedScope)]
               [] mdl.editCol = 4 -> [mdl EXCEPT !.textInput = textinputSetValue(@, change.SuggestedMessage)]
               [] OTHER -> mdl
    ELSE mdl

startEditGen(mdl) ==
    IF mdl.currentPage = "changes" /\ Len(mdl.changes) > 0
    THEN LET editing == setEditValueGen([mdl EXCEPT !.editMode = TRUE,
                                                    !.editRow = mdl.changesTable.cursor,
                                                    !.editCol = 2])
         IN  [editing EXCEPT !.textInput.focus = TRUE]
    ELSE mdl

saveEditGen(mdl) ==
    IF mdl.currentPage = "changes" /\ mdl.editRow >= 0 /\ mdl.editRow < Len(mdl.changes)
    THEN LET value == mdl.textInput.value
             row == mdl.editRow + 1
         IN  updateChangesTable(
                 CASE mdl.editCol = 2 -> [mdl EXCEPT !.changes[row].SuggestedType = value]
                   [] mdl.editCol = 3 -> [mdl EXCEPT !.changes[row].SuggestedScope = value]
                   [] mdl.editCol = 4 -> [mdl EXCEPT !.changes[row].SuggestedMessage = value]
                   [] OTHER -> mdl)
    ELSE mdl

cancelEdit(mdl) ==
    [mdl EXCEPT !.editMode = FALSE, !.editRow = -1, !.editCol = -1,
                !.textInput = textinputNew]

\* The table of the current page gets the key; the history table has no rows
\* and its cursor is never read
generatorTableUpdate(mdl, key) ==
    CASE mdl.currentPage = "changes" ->
            [mdl EXCEPT !.changesTable = tableUpdate(@, key)]
      [] mdl.currentPage = "suggestions" ->
            [mdl EXCEPT !.suggestionsTable = tableUpdate(@, key)]
      [] OTHER -> mdl

generatorUpdateNormal(mdl, key) ==
    CASE key \in {"q", "ctrl+c"} -> Updated(mdl, {Quit})
      [] key = "1" -> Updated([mdl EXCEPT !.currentPage = "changes"], {})
      [] key = "2" -> Updated([mdl EXCEPT !.currentPage = "suggestions"], {})
      [] key = "3" -> Updated([mdl EXCEPT !.currentPage = "history"], {loadGitHistoryGen})
      [] key = "e" -> Updated(startEditGen(mdl), {})
      [] key = "r" -> Updated(mdl, {loadGitChanges, showStatus(<<"Refreshing...">>)})
      [] key = "g" -> Updated(mdl, {generateSuggestionsGen(mdl)})
      [] key \in {"c", "enter"} ->
            Updated(mdl, IF mdl.currentPage = "suggestions" /\ Len(mdl.suggestions) > 0
                         THEN {commitWithSuggestion(mdl)} ELSE {})
      [] OTHER -> Updated(generatorTableUpdate(mdl, key), {})

generatorUpdateEdit(mdl, key) ==
    CASE key = "esc" -> Updated(cancelEdit(mdl), {})
      [] key = "enter" -> Updated(cancelEdit(saveEditGen(mdl)), {showStatus(<<"Updated">>)})
      [] key = "tab" ->
            LET saved == saveEditGen(mdl)
                next == (saved.editCol + 1) % 3
            IN  Updated(setEditValueGen([saved EXCEPT !.editCol = IF next = 0 THEN 2
                                                                  ELSE next]), {})
      [] OTHER -> Updated([mdl EXCEPT !.textInput = textinputUpdate(@, key)], {})

\* Update's gitChangesMsg case with the result of the scan appended to the
\* stored list
generatorGitChangesMsgMerging(mdl, message) ==
    LET loaded == updateChangesTable([mdl EXCEPT !.changes = @ \o message.changes,
                                                 !.changesArray = message.array])
    IN  Updated(loaded, {showStatus(<<"Loaded changes", Len(loaded.changes)>>),
                         generateSuggestionsGen(loaded)})

\* Update's gitChangesMsg case
generatorGitChangesMsg(mdl, message) ==
    LET loaded == updateChangesTable([mdl EXCEPT !.changes = message.changes,
                                                 !.changesArray = message.array])
    IN  Updated(loaded, {showStatus(<<"Loaded changes", Len(loaded.changes)>>),
                         generateSuggestionsGen(loaded)})

\* model.Update of the generator
generatorUpdate(mdl, message) ==
    CASE message.type = "statusMsg" ->
            Updated([mdl EXCEPT !.statusMsg = message.message], {})
      [] message.type = "gitChangesMsg" -> generatorGitChangesMsg(mdl, message)
      [] message.type = "commitSuggestionsMsg" ->
            LET generated == updateSuggestionsTable(
                                 [mdl EXCEPT !.suggestions = message.suggestions])
            IN  Updated(generated, {showStatus(<<"Generated suggestions",
                                                 Len(generated.suggestions)>>)})
      [] message.type = "WindowSizeMsg" ->
            Updated([mdl EXCEPT !.width = message.Width, !.height = message.Height], {})
      [] message.type = "KeyMsg" ->
            IF mdl.editMode THEN generatorUpdateEdit(mdl, message.key)
            ELSE generatorUpdateNormal(mdl, message.key)

\* The arguments of the "git commit" a commitWithSuggestion command runs:
\* <<>> when indexing the suggestions by the cursor panics first
commitArgs(c) ==
    IF c.cursor >= 0 /\ c.cursor < Len(c.suggestions)
    THEN <<"commit", "-m", commitMessageOf(c.suggestions[c.cursor + 1])>>
    ELSE <<>>

\* A backing array no command in flight but c holds
FreshArray(c) ==
    LET held == {d.array : d \in {d \in inflight \ {c} : "array" \in DOMAIN d}}
    IN  CHOOSE a \in 0..Cardinality(held) : a \notin held /\ \A b \in 0..(a - 1) : b \in held

\* The messages a command of the generator can come back with
generatorOutcomes(c) ==
    CASE c.cmd = "loadGitChanges" ->
            {[type |-> "gitChangesMsg", array |-> FreshArray(c),
              changes |-> [i \in DOMAIN w |-> analyzeChange(w[i].change)]] : w \in Worktrees}
            \cup {statusMsg(<<"Failed to load changes">>)}
      [] c.cmd = "generateSuggestions" ->
            {[type |-> "commitSuggestionsMsg", suggestions |-> s]
                : s \in analyzeChangesForCommitsGen(c.changes)}
      [] c.cmd = "showStatus" -> {statusMsg(c.message)}
      [] c.cmd = "loadGitHistory" ->
            {statusMsg(<<"Loaded history">>), statusMsg(<<"Failed to load history">>)}
      [] c.cmd = "commitWithSuggestion" ->
            IF commitArgs(c) = <<>> THEN {[type |-> "panic"]}
            ELSE {statusMsg(<<"Committed", c.suggestions[c.cursor + 1].Message>>),
                  statusMsg(<<"Commit failed">>)}
      [] c.cmd = "tea.Quit" -> {[type |-> "QuitMsg"]}

\* ---- the changelog tool (src/main.go:1-989) ------------------------------

\* sort.Slice(commits, Date.After) of getGitCommits: for fewer than 12
\* elements the insertion sort, which keeps equal dates in their order
RECURSIVE sortNewestFirst(_)
sortNewestFirst(commits) ==
    IF Len(commits) <= 1 THEN commits
    ELSE LET sorted == sortNewestFirst(SubSeq(commits, 1, Len(commits) - 1))
             last == commits[Len(commits)]
             ahead == {i \in DOMAIN sorted : \A j \in i..Len(sorted) : last.Date > sorted[j].Date}
             at == IF ahead = {} THEN Len(sorted) + 1
                   ELSE CHOOSE i \in ahead : \A j \in ahead : i <= j
         IN  SubSeq(sorted, 1, at - 1) \o <<last>> \o SubSeq(sorted, at, Len(sorted))

\* The records getGitCommits keeps of the lines of the output
RECURSIVE keptRecords(_)
keptRecords(lines) ==
    IF lines = <<>> THEN <<>>
    ELSE LET parts == Split(Head(lines), "|")
         IN  IF TrimSpace(Head(lines)) = <<>> \/ Len(parts) < 5
             THEN keptRecords(Tail(lines))
             ELSE <<parts>> \o keptRecords(Tail(lines))

\* getGitCommits on the output of git log
getGitCommits(log) ==
    LET records == keptRecords(Split(log, "\n"))
    IN  sortNewestFirst([i \in DOMAIN records |-> commitOfRecord(records[i])])

\* loadConfig when the configuration file is absent
defaultConfig ==
    [RepoPath |-> <<".","/">>, FromVersion |-> <<"H","E","A","D","~","1","0">>, ToVersion |-> <<"H","E","A","D">>,
     OutputFormat |-> <<"m","a","r","k","d","o","w","n">>, IncludeBreaking |-> TRUE, GroupByType |-> TRUE]

\* main(): the model handed to tea.NewProgram.  commitsArray names the
\* backing array of the commits slice; lastUpdate counts the ticks seen.
changelogModel ==
    [currentPage |-> "commits", commits |-> <<>>, commitsArray |-> 0,
     config |-> defaultConfig, commitsTable |-> tableNew, configTable |-> tableNew,
     editMode |-> FALSE, editRow |-> -1, editCol |-> -1, textInput |-> textinputNew,
     width |-> 100, height |-> 24, statusMsg |-> <<>>, lastUpdate |-> 0]

loadGitHistory(mdl) == [cmd |-> "loadGitHistory", config |-> mdl.config]
validateCommit(mdl) ==
    [cmd |-> "validateCommit", editRow |-> mdl.editRow, commits |-> mdl.commits,
     array |-> mdl.commitsArray]
generateChangelog(mdl) ==
    [cmd |-> "generateChangelog", commits |-> mdl.commits, array |-> mdl.commitsArray,
     config |-> mdl.config]

\* commit.Hash[:8] of updateCommitsTable is out of range for one of the commits
shortHash(commits) == \E i \in DOMAIN commits : Len(commits[i].Hash) < 8

\* updateCommitsTable and updateChangelogTable, for commits whose hashes have
\* 8 characters; the preview table's cursor is never read
updateCommitsTable(mdl) ==
    [mdl EXCEPT !.commitsTable = tableSetRows(@, Len(mdl.commits))]

ConfigRows == 6

updateConfigTable(mdl) ==
    [mdl EXCEPT !.configTable = tableSetRows(@, ConfigRows)]

\* fmt.Sprintf("%t", b)
FormatBool(b) == IF b THEN <<"t","r","u","e">> ELSE <<"f","a","l","s","e">>

setEditValue(mdl) ==
    CASE mdl.currentPage = "commits" ->
            IF mdl.editRow >= 0 /\ mdl.editRow < Len(mdl.commits)
            THEN LET commit == mdl.commits[mdl.editRow + 1]
                 IN  CASE mdl.editCol = 1 -> [mdl EXCEPT !.textInput = textinputSetValue(@, commit.Type)]
                       [] mdl.editCol = 2 -> [mdl EXCEPT !.textInput = textinputSetValue(@, commit.Scope)]
                       [] mdl.editCol = 3 -> [mdl EXCEPT !.textInput = textinputSetValue(@, commit.Subject)]
                       [] OTHER -> mdl
            ELSE mdl
      [] mdl.currentPage = "config" ->
            CASE mdl.editRow = 0 -> [mdl EXCEPT !.textInput = textinputSetValue(@, mdl.config.RepoPath)]
              [] mdl.editRow = 1 -> [mdl EXCEPT !.textInput = textinputSetValue(@, mdl.config.FromVersion)]
              [] mdl.editRow = 2 -> [mdl EXCEPT !.textInput = textinputSetValue(@, mdl.config.ToVersion)]
              [] mdl.editRow = 3 -> [mdl EXCEPT !.textInput = textinputSetValue(@, mdl.config.OutputFormat)]
              [] mdl.editRow = 4 ->
                    [mdl EXCEPT !.textInput = textinputSetValue(@, FormatBool(mdl.config.IncludeBreaking))]
              [] mdl.editRow = 5 ->
                    [mdl EXCEPT !.textInput = textinputSetValue(@, FormatBool(mdl.config.GroupByType))]
              [] OTHER -> mdl
      [] OTHER -> mdl

startEdit(mdl) ==
    CASE mdl.currentPage = "commits" ->
            IF Len(mdl.commits) = 0 THEN mdl
            ELSE LET editing == setEditValue([mdl EXCEPT !.editMode = TRUE,
                                                         !.editRow = mdl.commitsTable.cursor,
                                                         !.editCol = 1])
                 IN  [editing EXCEPT !.textInput.focus = TRUE]
      [] mdl.currentPage = "config" ->
            LET editing == setEditValue([mdl EXCEPT !.editMode = TRUE,
                                                    !.editRow = mdl.configTable.cursor,
                                                    !.editCol = 1])
            IN  [editing EXCEPT !.textInput.focus = TRUE]
      [] OTHER -> [mdl EXCEPT !.textInput.focus = TRUE]

\* saveEdit that keeps the flag of the commit it edits
saveEditStale(mdl) ==
    LET value == mdl.textInput.value
        row == mdl.editRow + 1
    IN  CASE mdl.currentPage = "commits" ->
                IF mdl.editRow >= 0 /\ mdl.editRow < Len(mdl.commits)
                THEN LET edited ==
                             CASE mdl.editCol = 1 -> [mdl.commits[row] EXCEPT !.Type = value]
                               [] mdl.editCol = 2 -> [mdl.commits[row] EXCEPT !.Scope = value]
                               [] mdl.editCol = 3 -> [mdl.commits[row] EXCEPT !.Subject = value]
                               [] OTHER -> mdl.commits[row]
                     IN  updateCommitsTable(
                             [mdl EXCEPT !.commits[row] = edited])
                ELSE mdl
          [] mdl.currentPage = "config" ->
                updateConfigTable(
                    CASE mdl.editRow = 0 -> [mdl EXCEPT !.config.RepoPath = value]
                      [] mdl.editRow = 1 -> [mdl EXCEPT !.config.FromVersion = value]
                      [] mdl.editRow = 2 -> [mdl EXCEPT !.config.ToVersion = value]
                      [] mdl.editRow = 3 -> [mdl EXCEPT !.config.OutputFormat = value]
                      [] mdl.editRow = 4 ->
                            [mdl EXCEPT !.config.IncludeBreaking = (value = <<"t","r","u","e">>)]
                      [] mdl.editRow = 5 ->
                            [mdl EXCEPT !.config.GroupByType = (value = <<"t","r","u","e">>)]
                      [] OTHER -> mdl)
          [] OTHER -> mdl

saveEdit(mdl) ==
    LET value == mdl.textInput.value
        row == mdl.editRow + 1
    IN  CASE mdl.currentPage = "commits" ->
                IF mdl.editRow >= 0 /\ mdl.editRow < Len(mdl.commits)
                THEN LET edited ==
                             CASE mdl.editCol = 1 -> [mdl.commits[row] EXCEPT !.Type = value]
                               [] mdl.editCol = 2 -> [mdl.commits[row] EXCEPT !.Scope = value]
                               [] mdl.editCol = 3 -> [mdl.commits[row] EXCEPT !.Subject = value]
                               [] OTHER -> mdl.commits[row]
                     IN  updateCommitsTable(
                             [mdl EXCEPT !.commits[row] =
                                 [edited EXCEPT !.Validated = validateCommitFormat(edited)]])
                ELSE mdl
          [] mdl.currentPage = "config" ->
                updateConfigTable(
                    CASE mdl.editRow = 0 -> [mdl EXCEPT !.config.RepoPath = value]
                      [] mdl.editRow = 1 -> [mdl EXCEPT !.config.FromVersion = value]
                      [] mdl.editRow = 2 -> [mdl EXCEPT !.config.ToVersion = value]
                      [] mdl.editRow = 3 -> [mdl EXCEPT !.config.OutputFormat = value]
                      [] mdl.editRow = 4 ->
                            [mdl EXCEPT !.config.IncludeBreaking = (value = <<"t","r","u","e">>)]
                      [] mdl.editRow = 5 ->
                            [mdl EXCEPT !.config.GroupByType = (value = <<"t","r","u","e">>)]
                      [] OTHER -> mdl)
          [] OTHER -> mdl

changelogUpdateNormal(mdl, key) ==
    CASE key \in {"q", "ctrl+c"} -> Updated(mdl, {Quit})
      [] key = "1" -> Updated([mdl EXCEPT !.currentPage = "commits"], {})
      [] key = "2" -> Updated(updateConfigTable([mdl EXCEPT !.currentPage = "config"]), {})
      [] key = "3" -> Updated([mdl EXCEPT !.currentPage = "changelog"], {})
      [] key = "e" -> Updated(startEdit(mdl), {})
      [] key = "r" ->
            Updated(mdl, {loadGitHistory(mdl), showStatus(<<"Refreshing git history...">>)})
      [] key = "g" -> Updated(mdl, {generateChangelog(mdl)})
      [] key = "s" ->
            [m |-> mdl, cmds |-> {showStatus(<<"Configuration saved">>)},
             saved |-> <<mdl.config>>, panic |-> FALSE]
      [] key \in {"v", "enter"} ->
            Updated(mdl, IF mdl.currentPage = "commits" /\ Len(mdl.commits) > 0
                         THEN {validateCommit(mdl)} ELSE {})
      [] OTHER -> Updated(mdl, {})

changelogUpdateEdit(mdl, key) ==
    CASE key = "esc" -> Updated(cancelEdit(mdl), {})
      [] key = "enter" -> Updated(cancelEdit(saveEdit(mdl)), {showStatus(<<"Updated">>)})
      [] key = "tab" ->
            LET saved == saveEdit(mdl)
                next == (saved.editCol + 1) % 4
            IN  Updated(setEditValue(
                    CASE saved.currentPage = "commits" ->
                            [saved EXCEPT !.editCol = IF next = 0 THEN 1 ELSE next]
                      [] saved.currentPage = "config" -> [saved EXCEPT !.editCol = 1]
                      [] OTHER -> saved), {})
      [] OTHER -> Updated([mdl EXCEPT !.textInput = textinputUpdate(@, key)], {})

\* model.Update of the changelog tool
changelogUpdate(mdl, message) ==
    CASE message.type = "statusMsg" ->
            Updated([mdl EXCEPT !.statusMsg = message.message], {})
      [] message.type = "tickMsg" ->
            Updated([mdl EXCEPT !.lastUpdate = @ + 1], {tickCmd})
      [] message.type = "gitCommitsMsg" ->
            LET loaded == updateCommitsTable([mdl EXCEPT !.commits = message.commits,
                                                         !.commitsArray = message.array])
            IN  IF shortHash(message.commits) THEN Panicked(mdl)
                ELSE Updated(loaded, {showStatus(<<"Loaded commits", Len(loaded.commits)>>)})
      [] message.type = "WindowSizeMsg" ->
            Updated([mdl EXCEPT !.width = message.Width, !.height = message.Height], {})
      [] message.type = "KeyMsg" ->
            IF mdl.editMode THEN changelogUpdateEdit(mdl, message.key)
            ELSE changelogUpdateNormal(mdl, message.key)

\* generateChangelogContent fails for every other format
OutputFormats == {<<"m","a","r","k","d","o","w","n">>, <<"j","s","o","n">>, <<"t","e","x","t">>}

\* generateChangelog's func with the file written whatever the format
generateChangelogOutcomesAnyFormat(c) ==
    {[msg  |-> statusMsg(<<"Changelog generated">>), m |-> m,
      disk |-> [disk EXCEPT !.changelog = TRUE]],
     [msg |-> statusMsg(<<"Failed to write changelog">>), m |-> m, disk |-> disk]}

\* What generateChangelog's func can do: os.WriteFile creates the changelog
\* file or fails
generateChangelogOutcomes(c) ==
    IF c.config.OutputFormat \in OutputFormats
    THEN {[msg  |-> statusMsg(<<"Changelog generated">>), m |-> m,
           disk |-> [disk EXCEPT !.changelog = TRUE]],
          [msg |-> statusMsg(<<"Failed to write changelog">>), m |-> m, disk |-> disk]}
    ELSE {[msg |-> statusMsg(<<"Failed to generate changelog">>), m |-> m, disk |-> disk]}

\* What running a command of the changelog tool can do: the message it comes
\* back with, and the model and the disk it leaves.  validateCommit writes the
\* flag through to the commits of the model when they are still the array it
\* holds.
changelogOutcomes(c) ==
    LET Back(message) == [msg |-> message, m |-> m, disk |-> disk]
    IN  CASE c.cmd = "tickCmd" -> {Back([type |-> "tickMsg"])}
          [] c.cmd = "loadGitHistory" ->
                {Back([type |-> "gitCommitsMsg", array |-> FreshArray(c),
                       commits |-> getGitCommits(log)]) : log \in GitLogs}
                \cup {Back(statusMsg(<<"Failed to load git history">>))}
          [] c.cmd = "showStatus" -> {Back(statusMsg(c.message))}
          [] c.cmd = "validateCommit" ->
                IF c.editRow >= 0 /\ c.editRow < Len(c.commits)
                THEN LET row == c.editRow + 1
                         valid == validateCommitFormat(c.commits[row])
                     IN  {[msg  |-> statusMsg(<<"Commit validated",
                                                 SliceTo(c.commits[row].Hash, 8)>>),
                           m    |-> IF c.array = m.commitsArray
                                    THEN [m EXCEPT !.commits[row].Validated = valid] ELSE m,
                           disk |-> disk]}
                ELSE {Back(statusMsg(<<"No commit selected">>))}
          [] c.cmd = "generateChangelog" -> generateChangelogOutcomes(c)
          [] c.cmd = "tea.Quit" -> {Back([type |-> "QuitMsg"])}

\* ---- the programs under the runtime --------------------------------------

\* The arguments of the git process a command runs; <<>> when it runs none
gitArgs(c) ==
    CASE c.cmd = "gitAddAll" -> <<"add", ".">>
      [] c.cmd = "gitPush" -> <<"push">>
      [] c.cmd = "gitStatus" -> <<"status", "--short">>
      [] c.cmd = "commitWithMessage" -> <<"commit", "-m", c.message>>
      [] c.cmd = "commitWithSuggestion" -> commitArgs(c)
      [] c.cmd = "loadGitChanges" -> <<"status", "--porcelain">>
      [] c.cmd = "loadGitHistory" -> <<"log">>
      [] OTHER -> <<>>

\* model.Update of the program that runs
Update(mdl, message) ==
    CASE env.tool = "helper" -> helperUpdate(mdl, message)
      [] env.tool = "generator" -> generatorUpdate(mdl, message)
      [] env.tool = "changelog" -> changelogUpdate(mdl, message)

\* What running a command in flight can do: the message it comes back with,
\* and the model and the disk it leaves
Outcomes(c) ==
    CASE env.tool = "helper" ->
            {[msg |-> message, m |-> m, disk |-> disk] : message \in helperOutcomes(c)}
      [] env.tool = "generator" ->
            {[msg |-> message, m |-> m, disk |-> disk] : message \in generatorOutcomes(c)}
      [] env.tool = "changelog" -> changelogOutcomes(c)

\* A command took its copy of the model by value, so its slice shares the
\* backing array with the model's: while the model still holds that array, the
\* command reads the elements the edits have left there
Shared(c, mdl) ==
    IF "array" \in DOMAIN c /\ "changes" \in DOMAIN c /\ c.array = mdl.changesArray
    THEN [c EXCEPT !.changes = mdl.changes]
    ELSE IF "array" \in DOMAIN c /\ "commits" \in DOMAIN c /\ c.array = mdl.commitsArray
    THEN [c EXCEPT !.commits = mdl.commits]
    ELSE c

\* The commands in flight other than the clock
Pending == {c \in inflight : c.cmd # "tickCmd"}

\* The text inputs of a model
TextInputs(mdl) ==
    IF "textInput" \in DOMAIN mdl THEN <<mdl.textInput>>
    ELSE <<mdl.customInput, mdl.editInput>>

\* Update inserted the rune of the key into a text input
Inserted(before, after, key) ==
    /\ key \in Runes
    /\ \E i \in DOMAIN TextInputs(before) :
          /\ TextInputs(before)[i].focus
          /\ TextInputs(after)[i] = textinputUpdate(TextInputs(before)[i], key)

\* The runtime starts every command it is handed, also one equal to a command
\* still in flight: nth tells the two apart
Distinct(c, busy) ==
    IF c \notin busy THEN c
    ELSE c @@ [nth |-> CHOOSE k \in 1..Cardinality(busy) :
                          /\ (c @@ [nth |-> k]) \notin busy
                          /\ \A j \in 1..(k - 1) : (c @@ [nth |-> j]) \in busy]

\* The runtime hands the message of an outcome to Update and starts the
\* commands Update returns; done are the commands that have completed
Deliver(outcome, done) ==
    IF outcome.msg.type \in {"QuitMsg", "panic"}
    THEN /\ program' = IF outcome.msg.type = "QuitMsg" THEN "quit" ELSE "panic"
         /\ m' = outcome.m
         /\ disk' = outcome.disk
         /\ inflight' = inflight \ done
    ELSE LET result == Update(outcome.m, outcome.msg)
         IN  /\ m' = result.m
             /\ disk' = IF result.saved = <<>> THEN outcome.disk
                        ELSE [outcome.disk EXCEPT !.config = result.saved[Len(result.saved)]]
             /\ LET busy == {Shared(c, result.m) : c \in inflight \ done}
                IN  inflight' = busy \cup {Distinct(Shared(c, result.m), busy) : c \in result.cmds}
             /\ program' = IF result.panic THEN "panic" ELSE program

(***************************************************************************)
(* SpecProgram: one of the programs from its start, under any key presses, *)
(* window sizes and completions of its commands.                           *)
(***************************************************************************)
\* A program as main() and Init() leave it, built with one of the releases;
\* the changelog tool has read one of the configurations from its file
StartedWith(environments, configs) ==
    /\ input = <<>>
    /\ output = NoOutput
    /\ env \in environments
    /\ \E config \in configs :
          /\ disk = [config |-> config, changelog |-> FALSE]
          /\ m = CASE env.tool = "helper" -> helperModel
                   [] env.tool = "generator" -> generatorModel
                   [] env.tool = "changelog" -> [changelogModel EXCEPT !.config = config]
    /\ inflight = CASE env.tool = "changelog" -> {tickCmd, loadGitHistory(m)}
                    [] OTHER -> {loadGitChanges}
    /\ program = "running"

\* The same when the configuration file did not exist
Started(environments) == StartedWith(environments, {defaultConfig})

\* The builds of a program: the helper has no table, and no key of Keys
\* brings the cursor of a text input to the start of a non-empty value, where
\* the releases of textinput differ
ProgramBuilds ==
    {[tool |-> "helper", clampOnSetRows |-> FALSE, cursorStaysAtStart |-> FALSE]}
    \cup {[tool |-> tool, clampOnSetRows |-> b, cursorStaysAtStart |-> FALSE] :
             tool \in {"generator", "changelog"}, b \in BOOLEAN}

InitProgram == Started(ProgramBuilds)

\* tea.KeyMsg, while fewer than bound commands are pending when the key
\* dispatches more
KeyPressWithin(key, bound) ==
    /\ program = "running"
    /\ LET result == Update(m, KeyMsg(key))
       IN  /\ result.cmds # {} => Cardinality(Pending) < bound
           /\ Inserted(m, result.m, key) =>
                 /\ key \in TypedRunes
                 /\ \A i \in DOMAIN TextInputs(m) :
                       TextInputs(m)[i].focus => Len(TextInputs(m)[i].value) < MaxInput
    /\ Deliver([msg |-> KeyMsg(key), m |-> m, disk |-> disk], {})
    /\ UNCHANGED <<input, output, env>>

\* tea.KeyMsg
KeyPress(key) == KeyPressWithin(key, MaxInflight)

\* tea.WindowSizeMsg
Resize(size) ==
    /\ program = "running"
    /\ Deliver([msg |-> WindowSizeMsg(size), m |-> m, disk |-> disk], {})
    /\ UNCHANGED <<input, output, env>>

\* A command in flight completes and its message reaches Update
Complete(c) ==
    /\ program = "running"
    /\ c \in inflight
    /\ c.cmd = "tickCmd" => m.lastUpdate < MaxTicks
    /\ \E outcome \in Outcomes(c) : Deliver(outcome, {c})
    /\ UNCHANGED <<input, output, env>>

NextProgram ==
    \/ \E key \in Keys : KeyPress(key)
    \/ \E size \in Sizes : Resize(size)
    \/ \E c \in inflight : Complete(c)

SpecProgram == InitProgram /\ [][NextProgram]_vars

(***************************************************************************)
(* SpecEdit: the changelog tool while the user loads the history and edits *)
(* the commits with a key that deletes.                                    *)
(***************************************************************************)
EditKeys == {"e", "tab", "enter", "esc", "backspace", "r"}

ChangelogBuilds ==
    {[tool |-> "changelog", clampOnSetRows |-> b, cursorStaysAtStart |-> s] :
        b \in BOOLEAN, s \in BOOLEAN}

InitEdit == Started(ChangelogBuilds)

NextEdit ==
    \/ \E key \in EditKeys : KeyPress(key)
    \/ \E c \in inflight : Complete(c)

SpecEdit == InitEdit /\ [][NextEdit]_vars

(***************************************************************************)
(* SpecGenerate: the changelog tool started on a configuration file with   *)
(* one of several output formats, while the user generates the changelog.  *)
(***************************************************************************)
GenerateKeys == {"g", "s", "r"}

\* The output formats in the configuration file: the three generateChangelogContent
\* knows, and another
ConfigFiles ==
    {[defaultConfig EXCEPT !.OutputFormat = format] :
        format \in OutputFormats \cup {<<"h","t","m","l">>}}

InitGenerate ==
    StartedWith({build \in ProgramBuilds : build.tool = "changelog"}, ConfigFiles)

NextGenerate ==
    \/ \E key \in GenerateKeys : KeyPress(key)
    \/ \E c \in inflight : Complete(c)

SpecGenerate == InitGenerate /\ [][NextGenerate]_vars

(***************************************************************************)
(* SpecRefresh: the generator while the user refreshes the change list,    *)
(* with several scans in flight, and edits the suggested types.            *)
(***************************************************************************)
RefreshKeys == {"r", "e", "enter", "esc", "backspace"}

\* Commands pending when a key of the user starts a scan, at most
MaxScans == 2

InitRefresh == Started({build \in ProgramBuilds : build.tool = "generator"})

\* tea.KeyMsg of one of the keys
Refresh(key) == KeyPressWithin(key, MaxScans)

NextRefresh ==
    \/ \E key \in RefreshKeys : Refresh(key)
    \/ \E c \in inflight : Complete(c)

SpecRefresh == InitRefresh /\ [][NextRefresh]_vars

(***************************************************************************)
(* Properties of the Suggestion Aggregator (SpecAgg).                      *)
(***************************************************************************)

\* The per-file suggestions of the analyzed change list
PerFile == individualSuggestions(input.changes, input.diffs)

\* The types that occur most often among the suggestions
MostCommonTypes(individual) ==
    LET count(t) == Cardinality({i \in DOMAIN individual : individual[i].Type = t})
    IN  {individual[i].Type : i \in
            {i \in DOMAIN individual : \A j \in DOMAIN individual :
                count(individual[j].Type) <= count(individual[i].Type)}}

\* C1: for N >= 1 files the result starts with the combined suggestion; the N
\* per-file suggestions follow it, in input order, iff N <= 3; the result is
\* never longer than 5 and never loses the combined suggestion; for N = 0 the
\* result is empty.
C1_CombinedFirstThenIndividualIffAtMost3 ==
    output.done =>
        LET N == Len(input.changes)
            out == output.value
        IN  /\ N = 0 => out = <<>>
            /\ N >= 1 =>
                /\ Len(out) >= 1
                /\ \E order \in MapOrders({PerFile[i].Type : i \in DOMAIN PerFile}) :
                      out[1] = generateCombinedSuggestion(PerFile, order)
                /\ (SubSeq(out, 2, Len(out)) = PerFile) <=> (N <= 3)
                /\ N > 3 => Len(out) = 1
                /\ Len(out) <= 5

\* C1 witness: three files were analyzed, four suggestions came back; and four
\* files give one
C1_Witness ==
    /\ output.done
    /\ Len(input.changes) = 3
    /\ Len(output.value) = 4
    /\ SubSeq(output.value, 2, 4) = PerFile

\* The phrase the combined message has for a change list of one type
PhraseOfType(t) ==
    CASE t = <<"f","e","a","t">> -> <<"a","d","d"," ","f","e","a","t","u","r","e","s">>
      [] t = <<"f","i","x">> -> <<"f","i","x"," ","i","s","s","u","e","s">>
      [] t = <<"d","o","c","s">> -> <<"u","p","d","a","t","e"," ","d","o","c","s">>
      [] t = <<"t","e","s","t">> -> <<"u","p","d","a","t","e"," ","t","e","s","t","s">>
      [] t = <<"c","h","o","r","e">> -> <<"u","p","d","a","t","e"," ","c","o","n","f","i","g">>
      [] t = <<"r","e","f","a","c","t","o","r">> -> <<"r","e","f","a","c","t","o","r"," ","c","o","d","e">>
      [] OTHER -> <<"u","p","d","a","t","e"," ","f","i","l","e","s">>

\* C2: the combined message is the phrase of the shared type, or "update
\* multiple files" for two or more types, with " (N files)" appended iff N > 1;
\* 10 files of type fix give exactly "fix issues (10 files)", and N <= 3 files
\* of mixed types give "update multiple files (N files)" and N more suggestions.
C2_CombinedMessage ==
    (output.done /\ Len(input.changes) >= 1) =>
        LET N == Len(input.changes)
            out == output.value
            types == {PerFile[i].Type : i \in DOMAIN PerFile}
            phrase == IF Cardinality(types) = 1
                      THEN PhraseOfType(CHOOSE t \in types : TRUE)
                      ELSE <<"u","p","d","a","t","e"," ","m","u","l","t","i","p","l","e"," ","f","i","l","e","s">>
            suffix == IF N > 1 THEN <<" ","(">> \o Itoa(N) \o <<" ","f","i","l","e","s",")">> ELSE <<>>
        IN  /\ out[1].Message = phrase \o suffix
            /\ (N = 10 /\ types = {<<"f","i","x">>}) =>
                  out = <<[Type |-> <<"f","i","x">>, Message |-> <<"f","i","x"," ","i","s","s","u","e","s"," ","(","1","0"," ","f","i","l","e","s",")">>]>>
            /\ (N <= 3 /\ Cardinality(types) >= 2) =>
                  /\ out[1].Message = <<"u","p","d","a","t","e"," ","m","u","l","t","i","p","l","e"," ","f","i","l","e","s"," ","(">> \o Itoa(N) \o <<" ","f","i","l","e","s",")">>
                  /\ Len(out) = N + 1
                  /\ SubSeq(out, 2, N + 1) = PerFile

\* C2 witness: ten files, all classified fix, were aggregated
C2_Witness ==
    /\ output.done
    /\ Len(input.changes) = 10
    /\ \A i \in DOMAIN PerFile : PerFile[i].Type = <<"f","i","x">>
    /\ Len(output.value) = 1

\* The most common type that is met first in input order
FirstSeenMostCommon(individual) ==
    individual[CHOOSE i \in DOMAIN individual :
                  /\ individual[i].Type \in MostCommonTypes(individual)
                  /\ \A j \in 1..(i - 1) : individual[j].Type \notin MostCommonTypes(individual)].Type

\* C3: the combined suggestion's type is a most common type, and among several
\* most common types it is the one met first in input order.
C3_TieBrokenByFirstSeen ==
    (output.done /\ Len(input.changes) >= 1) =>
        /\ output.value[1].Type \in MostCommonTypes(PerFile)
        /\ output.value[1].Type = FirstSeenMostCommon(PerFile)

(***************************************************************************)
(* Properties of the Change Classifier and the Message Composer            *)
(* (SpecClassify).                                                         *)
(***************************************************************************)

\* C6, as stated: every change whose status contains 'A' and whose diff has no
\* detected function is classified feat, whatever the path.
C6_AddedWithoutFunctionsIsFeat ==
    (output.done /\ Contains(output.value.Status, <<"A">>) /\ output.value.Functions = <<>>)
        => output.value.Type = <<"f","e","a","t">>

\* C6, amended: such a change is classified feat by the generator for every
\* path; the helper classifies it test when the path contains "test", else
\* docs when the path ends in ".md" or contains "README", else feat.
C6_AddedIsFeatUnlessTestOrDocPath ==
    (output.done /\ Contains(output.value.Status, <<"A">>) /\ output.value.Functions = <<>>)
        => LET file == output.value.File
           IN  output.value.Type =
                  IF output.value.tool = "generator" THEN <<"f","e","a","t">>
                  ELSE IF Contains(file, <<"t","e","s","t">>) THEN <<"t","e","s","t">>
                  ELSE IF HasSuffix(file, <<".","m","d">>) \/ Contains(file, <<"R","E","A","D","M","E">>) THEN <<"d","o","c","s">>
                  ELSE <<"f","e","a","t">>

\* C6 witness: the helper classified an added file without functions, whose
\* path is neither a test nor a doc path, as feat
C6_Witness ==
    /\ output.done
    /\ output.value.tool = "helper"
    /\ Contains(output.value.Status, <<"A">>)
    /\ output.value.Functions = <<>>
    /\ ~Contains(output.value.File, <<"t","e","s","t">>)
    /\ ~HasSuffix(output.value.File, <<".","m","d">>)
    /\ output.value.Type = <<"f","e","a","t">>

\* C7: every change whose status contains 'D' is classified chore and its
\* message is "remove " followed by the file's base name.
C7_DeletedIsChoreRemove ==
    (output.done /\ Contains(output.value.Status, <<"D">>))
        => /\ output.value.Type = <<"c","h","o","r","e">>
           /\ output.value.Message = <<"r","e","m","o","v","e"," ">> \o Base(output.value.File)

\* The types the helper's classifier returns and the scopes its scope
\* derivation returns on Paths
ClassifierTypes == { <<"t","e","s","t">>, <<"d","o","c","s">>, <<"f","e","a","t">>, <<"c","h","o","r","e">>, <<"f","i","x">>, <<"r","e","f","a","c","t","o","r">> }
DerivedScopes == {determineScope(path) : path \in Paths}

BlankCommit ==
    [Hash |-> <<>>, Author |-> <<>>, Email |-> <<>>, Body |-> <<>>, Type |-> <<>>,
     Scope |-> <<>>, Subject |-> <<>>, Breaking |-> FALSE, Validated |-> FALSE]

\* Wrapping message with type t and scope sc and parsing the result gives
\* t, sc and message back, with either parser
RoundTrips(t, sc, message) ==
    LET wrapped == commitMessageOf([Type |-> t, Scope |-> sc, Message |-> message,
                                    Breaking |-> FALSE])
        commit == parseConventionalCommit(BlankCommit, wrapped)
    IN  /\ parseCommitMessage(wrapped) = <<t, sc, message>>
        /\ commit.Type = t /\ commit.Scope = sc /\ commit.Subject = message

\* C9: a message "update <fn> function" composed for a modified file with one
\* detected function, wrapped with any classifier type and any derived scope,
\* parses back to that type, scope and message.
C9_RoundTrip ==
    (/\ output.done /\ output.value.tool = "helper"
     /\ output.value.Status = <<"M">> /\ Len(output.value.Functions) = 1
     /\ output.value.Message = <<"u","p","d","a","t","e"," ">> \o output.value.Functions[1] \o <<" ","f","u","n","c","t","i","o","n">>)
        => \A t \in ClassifierTypes, sc \in DerivedScopes :
              RoundTrips(t, sc, output.value.Message)

(***************************************************************************)
(* Properties of the parsers (SpecParse).                                  *)
(***************************************************************************)

\* The keyword guess in the priority order of the specification
KeywordGuess(line) ==
    LET has(word) == Contains(ToLower(line), word)
    IN  IF has(<<"f","i","x">>) \/ has(<<"b","u","g">>) THEN <<"f","i","x">>
        ELSE IF has(<<"f","e","a","t">>) \/ has(<<"a","d","d">>) THEN <<"f","e","a","t">>
        ELSE IF has(<<"d","o","c">>) THEN <<"d","o","c","s">>
        ELSE IF has(<<"t","e","s","t">>) THEN <<"t","e","s","t">>
        ELSE IF has(<<"r","e","f","a","c","t","o","r">>) THEN <<"r","e","f","a","c","t","o","r">>
        ELSE IF has(<<"s","t","y","l","e">>) \/ has(<<"f","o","r","m","a","t">>) THEN <<"s","t","y","l","e">>
        ELSE IF has(<<"p","e","r","f">>) \/ has(<<"p","e","r","f","o","r","m","a","n","c","e">>) THEN <<"p","e","r","f">>
        ELSE <<"c","h","o","r","e">>

\* C8: for a subject that does not match the grammar, every parser returns an
\* empty scope, the whole line as subject and the keyword guess as type.
C8_FallbackOfEveryParser ==
    (output.done /\ FindStringSubmatch(input[2]) = <<>>)
        => /\ output.value.Scope = <<>>
           /\ output.value.Subject = input[2]
           /\ output.value.Type = KeywordGuess(input[2])

\* C10: the parsed commit's breaking flag is set iff its subject contains
\* "breaking" or its body contains "breaking change", ignoring case.
C10_BreakingIffMarked ==
    (output.done /\ output.value.tool = "changelog")
        => (output.value.Breaking <=>
               \/ Contains(ToLower(output.value.Subject), <<"b","r","e","a","k","i","n","g">>)
               \/ Contains(ToLower(IF Len(input) > 5 THEN input[6] ELSE <<>>),
                           <<"b","r","e","a","k","i","n","g"," ","c","h","a","n","g","e">>))


(***************************************************************************)
(* Properties of the programs (SpecProgram).                               *)
(***************************************************************************)

\* The suggestion under the cursor of the suggestions list or table, with the
\* fields of the generator's CommitSuggestion
OnSuggestions ==
    IF env.tool = "helper" THEN m.state = "suggestions"
    ELSE env.tool = "generator" /\ m.currentPage = "suggestions" /\ ~m.editMode

SelectedSuggestion ==
    IF env.tool = "helper"
    THEN LET selected == SelectedItem(m.suggestions, m.suggestionsList)[1]
         IN  [Type |-> selected.Type, Scope |-> <<>>, Message |-> selected.Message,
              Breaking |-> FALSE]
    ELSE m.suggestions[m.suggestionsTable.cursor + 1]

\* C4: whenever the user commits the selected suggestion, "git commit" gets
\* type(scope): message, or type: message for an empty scope, of the
\* suggestion's own type, scope and message, with the BREAKING CHANGE footer
\* when its flag is set; in the helper and in the generator alike.
C4_CommitOfSuggestionIsConventional ==
    [][\A c \in inflight' \ inflight :
          (OnSuggestions /\ gitArgs(c) # <<>> /\ gitArgs(c)[1] = "commit")
              => gitArgs(c)[3] = commitMessageOf(SelectedSuggestion)]_vars

\* The keys that stage, commit or push
GitMutatingKeys == {"a", "p", "enter", "c"}

IsGitMutating(c) == gitArgs(c) # <<>> /\ gitArgs(c)[1] \in {"add", "commit", "push"}

\* C5: a command that runs git add, git commit or git push comes into flight
\* only by the Update of a key press a, p, enter or c; never by a status
\* message, a loaded change list, generated suggestions, a tick or a window
\* size.
C5_GitMutationOnlyByKeyPress ==
    [][(\E c \in inflight' \ inflight : IsGitMutating(c))
          => \E key \in GitMutatingKeys : KeyPress(key)]_vars

\* A commit of a suggestion is in flight in the generator while the change
\* list and the suggestions have come back
C5_Witness ==
    /\ program = "running"
    /\ env.tool = "generator"
    /\ Len(m.changes) > 0
    /\ \E c \in inflight : c.cmd = "commitWithSuggestion" /\ IsGitMutating(c)

(***************************************************************************)
(* Properties of the changelog tool's editor (SpecEdit).                   *)
(***************************************************************************)

\* C11: in every state of the changelog tool, after any history loads and
\* any edits of a commit's type, scope or subject saved with Enter or Tab, the
\* validated flag of each stored commit says whether its type is one of feat,
\* fix, docs, style, refactor, test, chore, perf, ci, build, revert.
C11_ValidatedIffTypeValid ==
    (env.tool = "changelog" /\ program = "running") =>
        \A i \in DOMAIN m.commits :
            m.commits[i].Validated
                <=> m.commits[i].Type \in {validTypes[k] : k \in DOMAIN validTypes}

\* The type "tests" the history was loaded with has been edited to "test"
C11_Witness ==
    /\ env.tool = "changelog"
    /\ m.commits # <<>>
    /\ m.commits[1].Hash = <<"f","e","d","c","b","a","9","8","7","6","5","4","3","2","1","0">>
    /\ m.commits[1].Type = <<"t","e","s","t">>
    /\ m.commits[1].Validated

\* C12: loading the git history is never fatal, whatever the text of the log:
\* blank lines and records of fewer than 5 fields are skipped, and building
\* the commits table from the records that are kept, with the first 8
\* characters of each hash, never ends the program with a runtime failure.
C12_HistoryLoadNeverFatal ==
    env.tool = "changelog" => program # "panic"

(***************************************************************************)
(* Properties of the Diff Analyzer and the classifiers (SpecClassify).     *)
(***************************************************************************)

\* The diff text the facts are to be derived from: the staged one when it is
\* there, else the unstaged one, else none
PreferredDiff(git) ==
    IF ~git.stagedErr /\ git.staged # <<>> THEN git.staged
    ELSE IF ~git.unstagedErr THEN git.unstaged
    ELSE <<>>

\* C13: the Diff Analyzer derives the facts from the staged diff of the file
\* when that is non-empty, from the unstaged diff when the staged one is empty
\* or could not be retrieved, and returns the empty facts (no lines added or
\* removed, no functions, no imports) when both are empty or fail.
C13_StagedElseUnstaged ==
    (output.done /\ output.value.tool = "helper") =>
        output.value.Diff = parseDiffOutput(PreferredDiff(input.git))

\* The status shows none of added, deleted, modified
NoStatusMatch(status) ==
    ~Contains(status, <<"A">>) /\ ~Contains(status, <<"D">>) /\ ~Contains(status, <<"M">>)

\* C14: classification and composition are total: for every path, status code
\* and diff facts the type is one of the eleven conventional types and a
\* message is returned, and a status code that shows none of added, deleted,
\* modified gives the type chore and the message "modify <file name>".
C14_TotalWithChoreModifyFallback ==
    output.done =>
        /\ validateCommitFormat(output.value)
        /\ output.value.Message # <<>>
        /\ NoStatusMatch(output.value.Status) =>
              /\ output.value.Type = <<"c","h","o","r","e">>
              /\ output.value.Message = <<"m","o","d","i","f","y"," ">> \o Base(output.value.File)

(***************************************************************************)
(* Properties of the refresh (SpecRefresh).                                *)
(***************************************************************************)

\* C15: refresh is last-write-wins.  With several scans of the repository in
\* flight, every scan result that arrives replaces the stored change list as a
\* whole: the list is then exactly the result of that scan, with nothing of
\* the previous list or of the edits made on it, so that when all the scans
\* have reported the list is the result of the one that reported last.
C15_ScanResultReplacesChangeList ==
    [][\A c \in inflight : \A outcome \in Outcomes(c) :
          (/\ c.cmd = "loadGitChanges"
           /\ outcome.msg.type = "gitChangesMsg"
           /\ Deliver(outcome, {c}))
              => m'.changes = outcome.msg.changes]_vars

\* The result of a scan has replaced a list whose first suggested type the
\* user had edited, which a command started before still holds, while another
\* scan is in flight
C15_Witness ==
    /\ env.tool = "generator"
    /\ m.changes # <<>>
    /\ m.changes[1].SuggestedType = <<"f","e","a","t">>
    /\ \E c \in inflight :
          /\ c.cmd = "generateSuggestions"
          /\ c.changes # <<>>
          /\ c.changes[1].SuggestedType = <<"f","e","a">>
    /\ \E c \in inflight : c.cmd = "loadGitChanges"

(***************************************************************************)
(* Properties of the helper's text inputs (SpecProgram).                   *)
(***************************************************************************)

\* The helper's model after the rune of the key went into the input of its
\* state and nowhere else
TypedInto(mdl, key) ==
    IF mdl.state = "custom" THEN [mdl EXCEPT !.customInput = textinputUpdate(@, key)]
    ELSE [mdl EXCEPT !.editInput = textinputUpdate(@, key)]

\* C16: in Custom mode, and likewise in the Edit state of a suggestion, the
\* press of a key that is one printable character inserts that character into
\* the message input and does nothing else: the program keeps running in the
\* same mode and no command (refresh, git add, git push, git status, quit) is
\* dispatched.
C16_PrintableKeysOnlyType ==
    [][\A key \in Runes :
          (env.tool = "helper" /\ m.state \in {"custom", "edit"} /\ KeyPress(key))
              => /\ m' = TypedInto(m, key)
                 /\ inflight' = inflight
                 /\ program' = program]_vars

(***************************************************************************)
(* Properties of the changelog generation (SpecGenerate).                  *)
(***************************************************************************)

\* C17: when the configured output format is none of markdown, json, text,
\* generating the changelog fails with the unsupported-format error, which is
\* reported as the failure status, and no changelog file is written.
C17_UnsupportedFormatWritesNothing ==
    [][\A c \in inflight :
          (/\ c.cmd = "generateChangelog"
           /\ c.config.OutputFormat \notin OutputFormats
           /\ Complete(c))
              => /\ m'.statusMsg = <<"Failed to generate changelog">>
                 /\ disk' = disk]_vars

\* The generation with the format html has reported its failure
C17_Witness ==
    /\ env.tool = "changelog"
    /\ m.config.OutputFormat = <<"h","t","m","l">>
    /\ m.statusMsg = <<"Failed to generate changelog">>
    /\ ~disk.changelog

(***************************************************************************)
(* The rule tables of the classifiers (SpecClassify).                      *)
(***************************************************************************)

\* The status shows modified, and neither added nor deleted
OnlyModified(status) ==
    Contains(status, <<"M">>) /\ ~Contains(status, <<"A">>) /\ ~Contains(status, <<"D">>)

ManifestNames == {<<"p","a","c","k","a","g","e",".","j","s","o","n">>, <<"g","o",".","m","o","d">>, <<"r","e","q","u","i","r","e","m","e","n","t","s",".","t","x","t">>, <<"C","a","r","g","o",".","t","o","m","l">>, <<"p","o","m",".","x","m","l">>}

\* The first rule of the table for modified files that matches
FirstModifiedRule(path, facts) ==
    CASE HasSuffix(path, <<".","m","d">>) \/ Contains(path, <<"R","E","A","D","M","E">>) \/ Contains(path, <<"d","o","c">>) -> <<"d","o","c","s">>
      [] OTHER ->
    CASE \/ Contains(path, <<"t","e","s","t">>) \/ HasSuffix(path, <<"_","t","e","s","t",".","g","o">>)
         \/ HasSuffix(path, <<".","t","e","s","t",".","j","s">>) -> <<"t","e","s","t">>
      [] OTHER ->
    CASE \/ Contains(path, <<"c","o","n","f","i","g">>)
         \/ \E suffix \in {<<".","j","s","o","n">>, <<".","y","a","m","l">>, <<".","y","m","l">>, <<".","t","o","m","l">>, <<".","e","n","v">>} : HasSuffix(path, suffix)
         \/ Base(path) \in {<<"D","o","c","k","e","r","f","i","l","e">>, <<"M","a","k","e","f","i","l","e">>} -> <<"c","h","o","r","e">>
      [] OTHER ->
    CASE Base(path) \in ManifestNames ->
            IF facts.Imports # <<>> THEN <<"f","e","a","t">> ELSE <<"c","h","o","r","e">>
      [] OTHER ->
    CASE facts.LinesRemoved > 0 /\ facts.LinesAdded < facts.LinesRemoved -> <<"f","i","x">>
      [] OTHER ->
    CASE facts.Functions # <<>> \/ facts.LinesAdded > 2 * facts.LinesRemoved -> <<"f","e","a","t">>
      [] OTHER ->
    CASE /\ facts.LinesAdded > 0 /\ facts.LinesRemoved > 0
         /\ facts.LinesAdded - facts.LinesRemoved < 10
         /\ facts.LinesRemoved - facts.LinesAdded < 10 -> <<"r","e","f","a","c","t","o","r">>
      [] OTHER ->
    CASE facts.LinesAdded + facts.LinesRemoved < 10 -> <<"f","i","x">>
      [] OTHER -> <<"f","e","a","t">>

\* C18: for every file change whose status shows modified, and neither added
\* nor deleted, the classified type is that of the first matching rule: doc
\* path, docs; test path or suffix, test; config path, extension or file
\* name, chore; dependency manifest, feat with import lines and chore without;
\* more lines removed than added, fix; a detected function or more than twice
\* as many lines added as removed, feat; lines added and removed that differ
\* by less than 10, refactor; fewer than 10 changed lines, fix; else feat.
C18_ModifiedRuleOrder ==
    (output.done /\ OnlyModified(output.value.Status)) =>
        output.value.Type = FirstModifiedRule(output.value.File, getFileDiff(input.git))

\* The type of the table for newly added files
AddedRule(path) ==
    IF Contains(path, <<"t","e","s","t">>) \/ HasSuffix(path, <<"_","t","e","s","t",".","g","o">>) THEN <<"t","e","s","t">>
    ELSE IF HasSuffix(path, <<".","m","d">>) \/ Contains(path, <<"R","E","A","D","M","E">>) \/ Contains(path, <<"d","o","c">>)
    THEN <<"d","o","c","s">>
    ELSE <<"f","e","a","t">>

\* C19: for every newly added file (the status shows added) the classified
\* type is test when the path carries a test marker, else docs when it carries
\* a doc marker (the suffix .md, the substring README, the substring doc), else
\* feat, with or without detected functions.
C19_AddedRuleOrder ==
    (output.done /\ Contains(output.value.Status, <<"A">>)) =>
        output.value.Type = AddedRule(output.value.File)

\* The scope of the table: by the first directory, or by the file name of a
\* path without a directory
ScopeTable(path) ==
    LET segments == Split(path, "/")
        first == segments[1]
    IN  CASE Len(segments) = 1 ->
               (CASE Contains(path, <<"t","e","s","t">>) -> <<"t","e","s","t">>
                  [] OTHER -> CASE HasSuffix(path, <<".","m","d">>) -> <<"d","o","c","s">>
                  [] OTHER -> CASE Contains(path, <<"c","o","n","f","i","g">>) -> <<"c","o","n","f","i","g">>
                  [] OTHER -> <<>>)
          [] OTHER ->
               CASE first \in {<<"s","r","c">>, <<"l","i","b">>} ->
                      (IF Len(segments) >= 3 THEN segments[2] ELSE <<"c","o","r","e">>)
                 [] first \in {<<"t","e","s","t","s">>, <<"t","e","s","t">>} -> <<"t","e","s","t">>
                 [] first \in {<<"d","o","c","s">>, <<"d","o","c","u","m","e","n","t","a","t","i","o","n">>} -> <<"d","o","c","s">>
                 [] first \in {<<"c","o","n","f","i","g">>, <<"c","o","n","f","i","g","s">>} -> <<"c","o","n","f","i","g">>
                 [] first = <<"a","p","i">> -> <<"a","p","i">>
                 [] first \in {<<"u","i">>, <<"f","r","o","n","t","e","n","d">>, <<"c","l","i","e","n","t">>} -> <<"u","i">>
                 [] first \in {<<"b","a","c","k","e","n","d">>, <<"s","e","r","v","e","r">>} -> <<"a","p","i">>
                 [] first \in {<<"s","c","r","i","p","t","s">>, <<"t","o","o","l","s">>} -> <<"t","o","o","l","s">>
                 [] OTHER -> first

\* C20: in every tool the scope of a classified file is the one the fixed
\* table gives for its path: the second segment or core under src and lib, the
\* mapped name of a known first directory, any other first directory verbatim,
\* and for a path without a directory test, docs, config or the empty scope by
\* the file name.
C20_ScopeFollowsTable ==
    output.done => output.value.Scope = ScopeTable(output.value.File)

\* The message of the table of the composer, by the status
ComposedByStatus(path, status, functions, type) ==
    LET name == Base(path)
        stem == TrimSuffix(name, Ext(path))
    IN  CASE status = <<"A">> ->
               (IF Len(functions) = 1 THEN <<"a","d","d"," ">> \o functions[1] \o <<" ","f","u","n","c","t","i","o","n">>
                ELSE <<"a","d","d"," ">> \o name)
          [] status = <<"D">> -> <<"r","e","m","o","v","e"," ">> \o name
          [] status = <<"M">> ->
               (IF type = <<"t","e","s","t">> THEN <<"u","p","d","a","t","e"," ">> \o stem \o <<" ","t","e","s","t","s">>
                ELSE IF Len(functions) = 1 /\ type # <<"d","o","c","s">>
                THEN <<"u","p","d","a","t","e"," ">> \o functions[1] \o <<" ","f","u","n","c","t","i","o","n">>
                ELSE <<"u","p","d","a","t","e"," ">> \o stem)
          [] status = <<"R">> -> <<"r","e","n","a","m","e"," ">> \o name
          [] OTHER -> <<"m","o","d","i","f","y"," ">> \o name

\* C21: the composed message is the one the table gives for the status: add
\* the sole function or the file name, remove the file name, update the tests,
\* the sole function or the base name, rename the file name, and modify the
\* file name for any other status.
C21_MessageByStatus ==
    output.done =>
        output.value.Message =
            ComposedByStatus(output.value.File, output.value.Status,
                             output.value.Functions, output.value.Type)

\* The keywords of a declaration, and the name an added line declares: the
\* token after the first keyword of the line, up to its first parenthesis
Keywords == {<<"f","u","n","c"," ">>, <<"f","u","n","c","t","i","o","n"," ">>, <<"d","e","f"," ">>, <<"c","l","a","s","s"," ">>}

DeclaredName(line) ==
    LET present == {keyword \in Keywords : Contains(line, keyword)}
        first == CHOOSE keyword \in present :
                     \A other \in present : Index(line, keyword) <= Index(line, other)
        after == Fields(SliceFrom(line, Index(line, first) + Len(first)))
        token == IF after = <<>> THEN <<>> ELSE after[1]
    IN  IF Contains(token, <<"(">>) THEN SliceTo(token, Index(token, <<"(">>)) ELSE token

RECURSIVE DeclaredNames(_)
DeclaredNames(lines) ==
    IF lines = <<>> THEN <<>>
    ELSE LET line == Head(lines)
             declares == /\ HasPrefix(line, <<"+">>) /\ ~HasPrefix(line, <<"+","+","+">>)
                         /\ \E keyword \in Keywords : Contains(line, keyword)
                         /\ DeclaredName(line) # <<>>
         IN  (IF declares THEN <<DeclaredName(line)>> ELSE <<>>)
                 \o DeclaredNames(Tail(lines))

\* C22: the function names of the diff facts are, in line order and with
\* duplicates kept, the names declared on the added lines of the diff: for each
\* added line with a func, function, def or class keyword the token after the
\* keyword without its parameter list; other lines contribute nothing.
C22_FunctionNamesOfAddedLines ==
    (output.done /\ output.value.tool = "helper" /\ ~input.git.stagedErr) =>
        output.value.Diff.Functions = DeclaredNames(Split(input.git.staged, "\n"))

(***************************************************************************)
(* SpecGroup: the generator's analyzeChangesForCommits applied to a change *)
(* list whose suggested types and scopes the user may have edited.         *)
(***************************************************************************)
EditedTypes == {<<"f","e","a","t">>, <<"d","o","c","s">>, <<"f","e","a","t",":","x">>}
EditedScopes == {<<>>, <<"a","u","t","h">>, <<"x",":","a","u","t","h">>}
MaxGroupFiles == 2

\* The changes of a scan, after saveEdit stored a type and a scope
EditedChanges ==
    {[analyzeChange([File |-> path, Status |-> <<"M">>]) EXCEPT
          !.SuggestedType = type, !.SuggestedScope = scope] :
        path \in {<<"m","a","i","n",".","g","o">>, <<"R","E","A","D","M","E",".","m","d">>}, type \in EditedTypes, scope \in EditedScopes}

GroupInputs ==
    UNION {[1..n -> EditedChanges] : n \in 0..MaxGroupFiles}

InitGroup ==
    /\ input \in GroupInputs
    /\ output = NoOutput
    /\ NoProgram

\* analyzeChangesForCommits(m.changes); the range over typeGroups visits the
\* map in an order the runtime picks
Group ==
    /\ ~output.done
    /\ \E suggestions \in analyzeChangesForCommitsGen(input) :
          output' = Returned(suggestions)
    /\ UNCHANGED <<input, programVars>>

NextGroup == Group

SpecGroup == InitGroup /\ [][NextGroup]_vars

\* The members of the changes with the type and the scope
MembersOf(changes, type, scope) ==
    SelectSeq(changes, LAMBDA change :
        change.SuggestedType = type /\ change.SuggestedScope = scope)

\* The phrase of a group of several members
PhraseOf(type, scope) ==
    CASE type = <<"f","e","a","t">> -> <<"a","d","d"," ">> \o scope \o <<" ","f","u","n","c","t","i","o","n","a","l","i","t","y">>
      [] type = <<"f","i","x">> -> <<"f","i","x"," ">> \o scope \o <<" ","i","s","s","u","e","s">>
      [] type = <<"d","o","c","s">> -> <<"u","p","d","a","t","e"," ">> \o scope \o <<" ","d","o","c","u","m","e","n","t","a","t","i","o","n">>
      [] type = <<"t","e","s","t">> -> <<"a","d","d"," ">> \o scope \o <<" ","t","e","s","t","s">>
      [] type = <<"c","h","o","r","e">> -> <<"u","p","d","a","t","e"," ">> \o scope \o <<" ","c","o","n","f","i","g","u","r","a","t","i","o","n">>
      [] OTHER -> <<"u","p","d","a","t","e"," ">> \o scope

\* C23: the grouping aggregator produces exactly one suggestion for every
\* distinct pair of type and scope in the change list, whatever the strings
\* are, and none else; it carries the pair's type and scope, the member's own
\* message and confidence 0.9 for a group of one, and the phrase of the type
\* and confidence 0.8 for a larger group.
C23_OneSuggestionPerTypeScopePair ==
    output.done =>
        LET pairs == {<<input[i].SuggestedType, input[i].SuggestedScope>> : i \in DOMAIN input}
            suggested == output.value
        IN  /\ Len(suggested) = Cardinality(pairs)
            /\ \A pair \in pairs :
                   \E i \in DOMAIN suggested :
                       LET members == MembersOf(input, pair[1], pair[2])
                       IN  /\ suggested[i].Type = pair[1]
                           /\ suggested[i].Scope = pair[2]
                           /\ suggested[i].Message =
                                  IF Len(members) = 1 THEN members[1].SuggestedMessage
                                  ELSE PhraseOf(pair[1], pair[2])
                           /\ suggested[i].Confidence = IF Len(members) = 1 THEN 90 ELSE 80

(***************************************************************************)
(* SpecRegenerate: the generator under refreshes and regenerations only,   *)
(* with up to MaxScans key presses' commands in flight.                    *)
(***************************************************************************)
RegenerateKeys == {"r", "g"}

NextRegenerate ==
    \/ \E key \in RegenerateKeys : Refresh(key)
    \/ \E c \in inflight : Complete(c)

SpecRegenerate == InitRefresh /\ [][NextRegenerate]_vars

\* C24: under refreshes and regenerations alone, whenever no command is in
\* flight the stored suggestions are the ones generated from the stored
\* change list.
C24_SuggestionsOfStoredChanges ==
    (program = "running" /\ Pending = {}) =>
        m.suggestions \in analyzeChangesForCommitsGen(m.changes)

\* The record a table tool is editing: the file of the change or the hash of
\* the commit in the row editRow of the stored list, and none when the list has
\* no such row
EditedRecord(mdl) ==
    IF "changes" \in DOMAIN mdl
    THEN (IF mdl.editRow >= 0 /\ mdl.editRow < Len(mdl.changes)
          THEN <<mdl.changes[mdl.editRow + 1].File>> ELSE <<>>)
    ELSE (IF mdl.editRow >= 0 /\ mdl.editRow < Len(mdl.commits)
          THEN <<mdl.commits[mdl.editRow + 1].Hash>> ELSE <<>>)

\* An edit of a record of the list is in progress
EditingRecord(mdl) ==
    /\ mdl.editMode
    /\ mdl.currentPage \in {"changes", "commits"}

\* C25: while a table tool edits a record, the row being edited holds the
\* record that was under the cursor when the edit began, whatever arrives in
\* between, so that Enter and Tab save into that record and no other.
C25_EditStaysOnItsRecord ==
    [][(env.tool \in {"generator", "changelog"} /\ program = "running"
            /\ EditingRecord(m) /\ EditingRecord(m'))
          => EditedRecord(m') = EditedRecord(m)]_vars

\* The editable columns of the records' page of a table tool, and the field
\* of the edited record that a column shows
EditableColumns(mdl) == IF "changes" \in DOMAIN mdl THEN 2..4 ELSE 1..3

EditedField(mdl, col) ==
    IF "changes" \in DOMAIN mdl
    THEN LET change == mdl.changes[mdl.editRow + 1]
         IN  CASE col = 2 -> change.SuggestedType
               [] col = 3 -> change.SuggestedScope
               [] col = 4 -> change.SuggestedMessage
    ELSE LET commit == mdl.commits[mdl.editRow + 1]
         IN  CASE col = 1 -> commit.Type
               [] col = 2 -> commit.Scope
               [] col = 3 -> commit.Subject

\* The model after n presses of Tab
RECURSIVE Tabbed(_, _)
Tabbed(mdl, n) ==
    IF n = 0 THEN mdl ELSE Tabbed(Update(mdl, KeyMsg("tab")).m, n - 1)

\* C26: while a table tool edits a record, every editable column of the page
\* is the edited column after some number of presses of Tab, and a press of Tab
\* saves the text of the input into the column it leaves.
C26_TabReachesEveryColumn ==
    (env.tool \in {"generator", "changelog"} /\ program = "running"
        /\ EditingRecord(m) /\ EditedRecord(m) # <<>>)
    => /\ \A col \in EditableColumns(m) :
              \E n \in 0..Cardinality(EditableColumns(m)) : Tabbed(m, n).editCol = col
       /\ EditedField(Tabbed(m, 1), m.editCol) = m.textInput.value

\* C27: the validation that v or Enter starts on the commits page, outside
\* edit mode and with a commit under the cursor, reports a commit of the list
\* as validated, never that no commit is selected.
C27_ValidationReportsTheCommit ==
    [][\A c \in inflight :
          (c.cmd = "validateCommit" /\ Complete(c))
              => /\ m'.statusMsg # <<"No commit selected">>
                 /\ \E i \in DOMAIN c.commits :
                        m'.statusMsg = <<"Commit validated", SliceTo(c.commits[i].Hash, 8)>>]_vars

\* The editable columns of the current page of a table tool
ColumnsOfPage(mdl) ==
    CASE mdl.currentPage = "changes" -> 2..4
      [] mdl.currentPage = "commits" -> 1..3
      [] mdl.currentPage = "config" -> {1}
      [] OTHER -> {}

\* The edit fields of a table tool agree with its mode
EditFieldsAgree(mdl) ==
    /\ ~mdl.editMode => mdl.editRow = -1 /\ mdl.editCol = -1
    /\ mdl.editMode => mdl.editRow >= 0 /\ mdl.editCol \in ColumnsOfPage(mdl)

\* C28: in both table tools, outside edit mode editRow and editCol are -1; in
\* edit mode editRow is at least 0 and editCol is an editable column of the
\* current page; and no step taken in edit mode changes the current page.
C28_EditFieldsAgreeWithMode ==
    [][(env.tool \in {"generator", "changelog"} /\ program = "running")
          => /\ EditFieldsAgree(m)
             /\ EditFieldsAgree(m')
             /\ m.editMode => m'.currentPage = m.currentPage]_vars

====
